---- MODULE Spec2Model ----
(***************************************************************************)
(* Model of the MIP TSP solver wrapper of vrp-with-claude-code:            *)
(*   instances/tsp/src/tsp_mip.py         MIPTSPSolver.solve,              *)
(*                                        _extract_tour, _handle_subtours, *)
(*                                        solve_tsp_with_mip               *)
(*   instances/tsp/debug_mip_solutions.py validate_tour                    *)
(* Python lists are sequences (1-based here, 0-based in the source), sets  *)
(* are sets, the dict `edges` is a function whose DOMAIN is its key set.   *)
(***************************************************************************)
EXTENDS Integers, Sequences, FiniteSets, TLC

\* ------------------------------------------------------------------ bounds
\* largest instance dimension (tsp_data['dimension']) explored
MaxN == 4
\* largest number of 1-valued variables x[(i, j)] in an assignment explored
MaxEdges == 4
\* a tour handed to validate_tour has at most n + MaxExtra entries
MaxExtra == 1
\* largest number of nodes of a successor map handed to _handle_subtours
MaxRepairN == 6
\* largest dimension for which arbitrary tours are handed to validate_tour
MaxTourN == 3
\* largest DIMENSION value, and largest node id with a coordinate line, of
\* the files handed to TSPDataExtractor
MaxDim == 3
\* x coordinates (in half units) of those files range over 0..MaxCoord
MaxCoord == 2
\* largest number of lines of the files handed to VRPDataReader.parse alone
MaxLines == 4
\* solution costs reported to the experiment runner range over 1..MaxCost
MaxCost == 2
\* largest number of sub-instances a caller keeps from one extractor
MaxSubs == 3
\* largest number of containers of kept sub-instances the caller writes to
MaxWrites == 1
\* demand points of a facility-location instance
MaxPoints == 2
\* facilities requested (p) and facilities listed
MaxFacilities == 2
\* runs held by the MLflow experiment
MaxRuns == 2

\* --------------------------------------------------------------- constants
\* Python's None, the value of edges.get(current) for a missing key
None == -1
\* float('inf'), the cost of the failure marker
Inf == "inf"
\* solvers_to_try, in list order
solvers_to_try == <<"HiGHS_CMD", "PULP_CBC_CMD", "COIN_CMD">>
\* the values model.status can take after model.solve(solver)
LpStatus == {"Optimal", "Feasible", "Not Solved", "Infeasible", "Unbounded", "Undefined"}
\* what one pass of the solver loop can meet: an exception or a status
Outcomes == {"raise"} \cup LpStatus

VARIABLES
    entry,          \* the function the run entered through
    pc,             \* position in the code
    n,              \* self.n = tsp_data['dimension']
    x,              \* the pairs (i, j) with pulp.value(x[(i, j)]) > 0.5
    attempts,       \* how each pass of the solver loop so far ended
    solver_used,    \* solve: solver_used ("None" until a solver succeeds)
    status,         \* model.status of the last model.solve
    edges,          \* _extract_tour: edges (dict node -> successor)
    tour,           \* _extract_tour: tour; validate_tour: its argument
    current,        \* current (of _extract_tour, then of _handle_subtours)
    visited,        \* _extract_tour: visited
    step,           \* _extract_tour: loop variable of range(self.n)
    unvisited,      \* _handle_subtours: unvisited
    subtours,       \* _handle_subtours: subtours
    start,          \* _handle_subtours: start
    subtour,        \* _handle_subtours: subtour
    repair_called,  \* whether _handle_subtours was invoked
    ret,            \* value returned by _extract_tour / _handle_subtours
    result,         \* tuple returned by MIPTSPSolver.solve
    out,            \* dictionary returned by solve_tsp_with_mip
    mip_tour,       \* the tour the caller hands to validate_tour
    valid,          \* first component of validate_tour's result
    lines,          \* VRPDataReader.parse: lines (the file, one token per line)
    lineno,         \* how many of the lines the loop of parse has consumed
    eof_read,       \* whether one of the consumed lines was the EOF line
    reader,         \* the VRPDataReader's fields and parse's local `section`
    distance_matrix, \* TSPDataExtractor.distance_matrix (the parent's matrix)
    num_nodes,      \* extract_tsp_subset: the argument num_nodes of the last call
    tsp_data,       \* the dictionary returned by the last extract_tsp_subset
    ortools_results, \* main: ortools_results, in insertion order
    mip_results,    \* main: mip_results, in insertion order
    comparison_data, \* main: comparison_data
    visualization_files, \* main: visualization_files
    runs,           \* the MLflow runs main has completed, in order
    idx,            \* how many passes the current loop of main has made
    heap,           \* the dicts, arrays and lists of the kept sub-instances
    subs,           \* the sub-instances a caller keeps, in the order returned
    written,        \* the (sub-instance, field) objects the caller wrote to
    reading_coords, \* load_tsp_instance: reading_coords
    loaded,         \* load_tsp_instance: its local dictionary tsp_data
    num_facilities, \* MIPFacilityLocationSolver.num_facilities (p)
    facility_locations, \* validate_solution: argument facility_locations
    assignments,    \* validate_solution: argument assignments
    errors,         \* validate_solution: errors
    is_valid,       \* validate_solution: is_valid
    listed,         \* delete_tai_runs: runs, the result of search_runs
    tai_runs,       \* delete_tai_runs: tai_runs
    deleted,        \* the run ids the tracking server has deleted
    delpos          \* delete_tai_runs: passes made by the loop in progress

\* the state of the MIP solver wrapper and of validate_tour, entry and pc apart
tsplocals == <<n, x, attempts, solver_used, status, edges, tour, current,
               visited, step, unvisited, subtours, start, subtour,
               repair_called, ret, result, out, mip_tour, valid>>

\* the state of the reader and of the sub-instance extractor
instvars == <<lines, lineno, eof_read, reader, distance_matrix, num_nodes,
              tsp_data>>

\* the state of the experiment runner
runvars == <<ortools_results, mip_results, comparison_data,
             visualization_files, runs, idx>>

\* the sub-instances kept by a caller of extract_tsp_subset
sharevars == <<heap, subs, written>>

\* the state of load_tsp_instance
loadvars == <<reading_coords, loaded>>

\* the state of MIPFacilityLocationSolver.validate_solution
facvars == <<num_facilities, facility_locations, assignments, errors, is_valid>>

\* the state of the run deletion script
delvars == <<listed, tai_runs, deleted, delpos>>

extvars == <<sharevars, loadvars, facvars, delvars>>

vars == <<entry, pc, tsplocals, instvars, runvars, extvars>>

\* ---------------------------------------------------------------- helpers
Nodes(m) == 0 .. (m - 1)

\* the ordered pairs for which solve creates a variable x[(i, j)]
Pairs(m) == {p \in Nodes(m) \X Nodes(m) : p[1] # p[2]}

\* every 0/1 assignment over the pairs with at most MaxEdges ones
Assignments(m) == {s \in SUBSET Pairs(m) : Cardinality(s) <= MaxEdges}

SetMax(S) == CHOOSE a \in S : \A b \in S : b <= a
SetMin(S) == CHOOSE a \in S : \A b \in S : a <= b

\* list.index(v): 1-based position of the first occurrence
IndexOf(s, v) == SetMin({k \in 1..Len(s) : s[k] = v})

Range(s) == {s[k] : k \in 1..Len(s)}

\* s[a:] + s[:a] for a 0-based a, i.e. rotation to start at position a + 1
Rotate(s, k) == SubSeq(s, k, Len(s)) \o SubSeq(s, 1, k - 1)

\* the values the variables have before the code that sets them has run
NoResult == [kind |-> "none"]

\* -------------------------------------------------- _extract_tour: edges
\* lines 138-142: i and j ascend and edges[i] = j overwrites, so the last
\* (largest) selected j of each i stays
BuildEdges(m, sel) ==
    [i \in {p[1] : p \in sel} |-> SetMax({j \in Nodes(m) : <<i, j>> \in sel})]


\* ----------------------------------------------------- MIPTSPSolver.solve
\* the failure marker of line 121 (solve_time is wall-clock time, left out)
FailureMarker ==
    [tour |-> <<>>, total_distance |-> Inf, is_optimal |-> FALSE,
     solver_used |-> "NONE"]

\* what an outcome of model.solve amounts to: an exception, a status that
\* carries a solution, or a status that carries none
Kind(o) ==
    IF o = "raise" THEN "raised"
    ELSE IF o \in {"Optimal", "Feasible"} THEN "solution"
    ELSE "no_solution"

\* SolverAttempt without the except clause of lines 113-115: an exception of
\* model.solve leaves solve
SolverAttempt_NoExcept ==
    /\ pc = "solve_loop"
    /\ Len(attempts) < Len(solvers_to_try)
    /\ \E o \in Outcomes :
         /\ attempts' = Append(attempts, Kind(o))
         /\ status' = IF o = "raise" THEN status ELSE o
         /\ IF o \in {"Optimal", "Feasible"}
              THEN /\ solver_used' = solvers_to_try[Len(attempts) + 1]
                   /\ \E sel \in Assignments(n) : x' = sel
                   /\ pc' = "extract"
              ELSE /\ UNCHANGED <<solver_used, x>>
                   /\ pc' = IF o = "raise" THEN "exception" ELSE "solve_loop"
    /\ UNCHANGED <<entry, n, edges, tour, current, visited, step, unvisited,
                   subtours, start, subtour, repair_called, ret, result, out,
                   mip_tour, valid>>
    /\ UNCHANGED <<instvars, runvars, extvars>>

\* SolverAttempt without the elif of lines 105-108: a Feasible status goes
\* on to the next solver
SolverAttempt_OptimalOnly ==
    /\ pc = "solve_loop"
    /\ Len(attempts) < Len(solvers_to_try)
    /\ \E o \in Outcomes :
         /\ attempts' = Append(attempts, Kind(o))
         /\ status' = IF o = "raise" THEN status ELSE o
         /\ IF o = "Optimal"
              THEN /\ solver_used' = solvers_to_try[Len(attempts) + 1]
                   /\ \E sel \in Assignments(n) : x' = sel
                   /\ pc' = "extract"
              ELSE /\ UNCHANGED <<solver_used, x>>
                   /\ pc' = "solve_loop"
    /\ UNCHANGED <<entry, n, edges, tour, current, visited, step, unvisited,
                   subtours, start, subtour, repair_called, ret, result, out,
                   mip_tour, valid>>
    /\ UNCHANGED <<instvars, runvars, extvars>>

\* lines 93-115: one pass of the loop over solvers_to_try. model.solve either
\* raises (caught at line 113) or leaves a status; Optimal and Feasible set
\* solver_used and break, every other status continues with the next solver.
\* On success the solver has left an assignment in the variables x.
SolverAttempt ==
    /\ pc = "solve_loop"
    /\ Len(attempts) < Len(solvers_to_try)
    /\ \E o \in Outcomes :
         /\ attempts' = Append(attempts, Kind(o))
         /\ status' = IF o = "raise" THEN status ELSE o
         /\ IF o \in {"Optimal", "Feasible"}
              THEN /\ solver_used' = solvers_to_try[Len(attempts) + 1]
                   /\ \E sel \in Assignments(n) : x' = sel
                   /\ pc' = "extract"
              ELSE /\ UNCHANGED <<solver_used, x>>
                   /\ pc' = "solve_loop"
    /\ UNCHANGED <<entry, n, edges, tour, current, visited, step, unvisited,
                   subtours, start, subtour, repair_called, ret, result, out,
                   mip_tour, valid>>
    /\ UNCHANGED <<instvars, runvars, extvars>>

\* lines 117-121: the loop ran out of solvers and solver_used is still None
SolveFailed ==
    /\ pc = "solve_loop"
    /\ Len(attempts) = Len(solvers_to_try)
    /\ solver_used = "None"
    /\ result' = FailureMarker
    /\ pc' = "solve_returned"
    /\ UNCHANGED <<entry, n, x, attempts, solver_used, status, edges, tour,
                   current, visited, step, unvisited, subtours, start, subtour,
                   repair_called, ret, out, mip_tour, valid>>
    /\ UNCHANGED <<instvars, runvars, extvars>>

\* ------------------------------------------------------------ _extract_tour
\* ExtractBegin without the depot check of lines 147-149
ExtractBegin_NoDepotCheck ==
    /\ pc = "extract"
    /\ edges' = BuildEdges(n, x)
    /\ tour' = <<>>
    /\ current' = 0
    /\ visited' = {}
    /\ pc' = "walk"
    /\ step' = 0
    /\ UNCHANGED <<entry, n, x, attempts, solver_used, status, unvisited,
                   subtours, start, subtour, repair_called, ret, result, out,
                   mip_tour, valid>>
    /\ UNCHANGED <<instvars, runvars, extvars>>

\* lines 138-153: build edges; return [] when node 0 has no outgoing edge,
\* otherwise set up the walk
ExtractBegin ==
    /\ pc = "extract"
    /\ edges' = BuildEdges(n, x)
    /\ IF 0 \notin DOMAIN edges'
         THEN /\ ret' = <<>>
              /\ pc' = "extract_returned"
              /\ UNCHANGED <<tour, current, visited>>
         ELSE /\ tour' = <<>>
              /\ current' = 0
              /\ visited' = {}
              /\ pc' = "walk"
              /\ UNCHANGED ret
    /\ step' = 0
    /\ UNCHANGED <<entry, n, x, attempts, solver_used, status, unvisited,
                   subtours, start, subtour, repair_called, result, out, mip_tour, valid>>
    /\ UNCHANGED <<instvars, runvars, extvars>>

\* WalkStep without the visited check of lines 157-159
WalkStep_NoVisitedCheck ==
    /\ pc = "walk"
    /\ step < n
    /\ tour' = Append(tour, current)
    /\ visited' = visited \cup {current}
    /\ IF current \notin DOMAIN edges
         THEN /\ pc' = "walk_done"
              /\ UNCHANGED <<current, step>>
         ELSE /\ current' = edges[current]
              /\ step' = step + 1
              /\ pc' = IF step + 1 = n THEN "walk_done" ELSE "walk"
    /\ UNCHANGED <<entry, n, x, attempts, solver_used, status, edges, unvisited,
                   subtours, start, subtour, repair_called, ret, result, out,
                   mip_tour, valid>>
    /\ UNCHANGED <<instvars, runvars, extvars>>

\* lines 156-168: one pass of `for step in range(self.n)`; step counts the
\* passes that ran to their end
WalkStep ==
    /\ pc = "walk"
    /\ step < n
    /\ IF current \in visited
         THEN /\ pc' = "walk_done"
              /\ UNCHANGED <<tour, visited, current, step>>
         ELSE /\ tour' = Append(tour, current)
              /\ visited' = visited \cup {current}
              /\ IF current \notin DOMAIN edges
                   THEN /\ pc' = "walk_done"
                        /\ UNCHANGED <<current, step>>
                   ELSE /\ current' = edges[current]
                        /\ step' = step + 1
                        /\ pc' = IF step + 1 = n THEN "walk_done" ELSE "walk"
    /\ UNCHANGED <<entry, n, x, attempts, solver_used, status, edges, unvisited,
                   subtours, start, subtour, repair_called, ret, result, out,
                   mip_tour, valid>>
    /\ UNCHANGED <<instvars, runvars, extvars>>

\* WalkVerify returning the walk without the closing 0 (line 179 dropped)
WalkVerify_NoClose ==
    /\ pc = "walk_done"
    /\ IF Len(tour) # n
         THEN /\ repair_called' = TRUE
              /\ subtours' = <<>>
              /\ unvisited' = Nodes(n)
              /\ pc' = "hs_outer"
              /\ UNCHANGED ret
         ELSE /\ ret' = tour
              /\ pc' = "extract_returned"
              /\ UNCHANGED <<repair_called, subtours, unvisited>>
    /\ UNCHANGED <<entry, n, x, attempts, solver_used, status, edges, tour,
                   current, visited, step, start, subtour, result, out,
                   mip_tour, valid>>
    /\ UNCHANGED <<instvars, runvars, extvars>>

\* lines 170-180: a walk of n nodes is closed with 0 and returned; any other
\* length hands the successor map to _handle_subtours (lines 184-188)
WalkVerify ==
    /\ pc = "walk_done"
    /\ IF Len(tour) # n
         THEN /\ repair_called' = TRUE
              /\ subtours' = <<>>
              /\ unvisited' = Nodes(n)
              /\ pc' = "hs_outer"
              /\ UNCHANGED ret
         ELSE /\ ret' = Append(tour, 0)
              /\ pc' = "extract_returned"
              /\ UNCHANGED <<repair_called, subtours, unvisited>>
    /\ UNCHANGED <<entry, n, x, attempts, solver_used, status, edges, tour,
                   current, visited, step, start, subtour, result, out, mip_tour, valid>>
    /\ UNCHANGED <<instvars, runvars, extvars>>


\* --------------------------------------------------------- _handle_subtours
\* edges.get(current): None for a missing key
EdgesGet(e, c) == IF c \in DOMAIN e THEN e[c] ELSE None

\* lines 190-197: `while unvisited` picks the next start (0 when it is still
\* unvisited, else the smallest unvisited id) and opens a new subtour
SubtourStart ==
    /\ pc = "hs_outer"
    /\ IF unvisited # {}
         THEN /\ start' = IF 0 \in unvisited THEN 0 ELSE SetMin(unvisited)
              /\ subtour' = <<>>
              /\ current' = start'
              /\ pc' = "hs_inner"
         ELSE /\ pc' = "hs_select"
              /\ UNCHANGED <<start, subtour, current>>
    /\ UNCHANGED <<entry, n, x, attempts, solver_used, status, edges, tour,
                   visited, step, unvisited, subtours, repair_called, ret,
                   result, out, mip_tour, valid>>
    /\ UNCHANGED <<instvars, runvars, extvars>>

\* Collect keeping only walks of more than two nodes
Collect_LongOnly(sts, st) == IF Len(st) > 2 THEN Append(sts, st) ELSE sts

\* lines 210-211: only a walk of more than one node is kept
Collect(sts, st) == IF Len(st) > 1 THEN Append(sts, st) ELSE sts

\* SubtourStep without unvisited.remove(current) of line 202
SubtourStep_NoRemove ==
    /\ pc = "hs_inner"
    /\ IF current # None /\ current \in unvisited
         THEN LET st  == Append(subtour, current)
                  nxt == EdgesGet(edges, current)
              IN  /\ subtour' = st
                  /\ unvisited' = unvisited
                  /\ current' = nxt
                  /\ IF nxt = start \/ nxt = None \/ nxt \notin unvisited'
                       THEN /\ subtours' = Collect(subtours, st)
                            /\ pc' = "hs_outer"
                       ELSE /\ pc' = "hs_inner"
                            /\ UNCHANGED subtours
         ELSE /\ subtours' = Collect(subtours, subtour)
              /\ pc' = "hs_outer"
              /\ UNCHANGED <<subtour, unvisited, current>>
    /\ UNCHANGED <<entry, n, x, attempts, solver_used, status, edges, tour,
                   visited, step, start, repair_called, ret, result, out, mip_tour, valid>>
    /\ UNCHANGED <<instvars, runvars, extvars>>

\* lines 200-211: one pass of `while current is not None and current in
\* unvisited`; when the loop ends (its condition fails, or one of the two
\* breaks is taken) the subtour is collected and the outer loop goes on
SubtourStep ==
    /\ pc = "hs_inner"
    /\ IF current # None /\ current \in unvisited
         THEN LET st  == Append(subtour, current)
                  nxt == EdgesGet(edges, current)
              IN  /\ subtour' = st
                  /\ unvisited' = unvisited \ {current}
                  /\ current' = nxt
                  /\ IF nxt = start \/ nxt = None \/ nxt \notin unvisited'
                       THEN /\ subtours' = Collect(subtours, st)
                            /\ pc' = "hs_outer"
                       ELSE /\ pc' = "hs_inner"
                            /\ UNCHANGED subtours
         ELSE /\ subtours' = Collect(subtours, subtour)
              /\ pc' = "hs_outer"
              /\ UNCHANGED <<subtour, unvisited, current>>
    /\ UNCHANGED <<entry, n, x, attempts, solver_used, status, edges, tour,
                   visited, step, start, repair_called, ret, result, out, mip_tour, valid>>
    /\ UNCHANGED <<instvars, runvars, extvars>>

\* lines 216-220: the first collected subtour that contains node 0, as its
\* 1-based position in subtours (0 when there is none)
DepotSubtour(sts) ==
    LET hits == {k \in 1..Len(sts) : 0 \in Range(sts[k])}
    IN  IF hits = {} THEN 0 ELSE SetMin(hits)

\* line 232: max(subtours, key=len) scans left to right and keeps an element
\* only when its key is strictly larger, so the first longest one is returned
RECURSIVE MaxByLen(_, _, _)
MaxByLen(sts, k, best) ==
    IF k > Len(sts) THEN best
    ELSE MaxByLen(sts, k + 1, IF Len(sts[k]) > Len(sts[best]) THEN k ELSE best)

\* max(subtours, key=len) mistaken for the first collected subtour
Largest_First(sts) == sts[1]

Largest(sts) == sts[MaxByLen(sts, 2, 1)]

\* SelectSubtour without the depot preference of lines 216-228, returning the
\* last collected subtour
SelectSubtour_Last(sts) ==
    IF sts # <<>>
      THEN Append(sts[Len(sts)], sts[Len(sts)][1])
      ELSE <<>>

\* lines 215-238: what _handle_subtours returns for the collected subtours
SelectSubtour(sts) ==
    LET d == DepotSubtour(sts)
    IN  IF d # 0
          THEN Append(Rotate(sts[d], IndexOf(sts[d], 0)), 0)
          ELSE IF sts # <<>>
                 THEN Append(Largest(sts), Largest(sts)[1])
                 ELSE <<>>

\* lines 213-238: the return of _handle_subtours
SubtourSelect ==
    /\ pc = "hs_select"
    /\ ret' = SelectSubtour(subtours)
    /\ pc' = IF entry = "_handle_subtours" THEN "hs_returned"
                                          ELSE "extract_returned"
    /\ UNCHANGED <<entry, n, x, attempts, solver_used, status, edges, tour,
                   current, visited, step, unvisited, subtours, start, subtour,
                   repair_called, result, out, mip_tour, valid>>
    /\ UNCHANGED <<instvars, runvars, extvars>>


\* ------------------------- utils.py: the distance of two coordinates
\* floor of the square root
ISqrt(v) == CHOOSE r \in 0..v : r * r <= v /\ (r + 1) * (r + 1) > v

\* line 96, squared and in half units: the distance is sqrt(SqDist(a, b)) / 2
SqDist(a, b) ==
    (b[1] - a[1]) * (b[1] - a[1]) + (b[2] - a[2]) * (b[2] - a[2])

\* rounding that sends a fraction of exactly one half to the even integer
RoundHalfUp_ToEven(d2h) ==
    LET s == ISqrt(d2h)
        q == s \div 2
    IN  IF s * s = d2h /\ s % 2 = 1
          THEN IF q % 2 = 0 THEN q ELSE q + 1
          ELSE (s + 1) \div 2

\* line 98: int(Decimal(str(distance)).quantize(Decimal('1'), ROUND_HALF_UP))
\* for distance = sqrt(d2h) / 2, which is floor((sqrt(d2h) + 1) / 2)
RoundHalfUp(d2h) == (ISqrt(d2h) + 1) \div 2

\* ------------------------------------------------- the instance solved
\* tsp_data of the solver (lines 27-30): city 0..3 are the corners of the 3
\* by 4 rectangle, further cities continue its left side; half units
City(i) ==
    IF i = 0 THEN <<0, 0>>
    ELSE IF i = 1 THEN <<6, 0>>
    ELSE IF i = 2 THEN <<6, 8>>
    ELSE <<0, 8 * (i - 2)>>

\* tsp_data['distance_matrix'][i][j], as the extractor computes it
Distance(i, j) == IF i = j THEN 0 ELSE RoundHalfUp(SqDist(City(i), City(j)))

\* lines 62-65 and 124: the value of the objective, the sum of
\* distance_matrix[i][j] over the pairs with x[(i, j)] = 1
RECURSIVE objective(_)
objective(sel) ==
    IF sel = {} THEN 0
    ELSE LET p == CHOOSE q \in sel : TRUE
         IN  Distance(p[1], p[2]) + objective(sel \ {p})

\* debug_mip_solutions.py lines 16-32, with len(distance_matrix) = m
RECURSIVE TourSum(_, _)
TourSum(t, k) ==
    IF k >= Len(t) THEN 0 ELSE Distance(t[k], t[k + 1]) + TourSum(t, k + 1)

calculate_tour_distance(m, t) ==
    IF t = <<>> \/ Len(t) < 3 THEN Inf
    ELSE IF \E k \in 1..Len(t) : t[k] >= m THEN Inf
    ELSE TourSum(t, 1)

\* ------------------------------------------------ solve, after the loop
\* lines 123-133: the tuple solve returns once a solver has succeeded; the
\* cost is the value of the objective under the assignment x
SolveReturn ==
    /\ pc = "extract_returned"
    /\ entry = "solve_tsp_with_mip"
    /\ result' = [tour |-> ret, total_distance |-> objective(x),
                  is_optimal |-> (status = "Optimal"),
                  solver_used |-> solver_used]
    /\ pc' = "solve_returned"
    /\ UNCHANGED <<entry, n, x, attempts, solver_used, status, edges, tour,
                   current, visited, step, unvisited, subtours, start, subtour,
                   repair_called, ret, out, mip_tour, valid>>
    /\ UNCHANGED <<instvars, runvars, extvars>>

\* --------------------------------------------------- solve_tsp_with_mip
\* tour[:-1] of a non-empty list
ButLast(t) == SubSeq(t, 1, Len(t) - 1)

\* MipResult branching on whether a solver succeeded instead of on the tour
MipResult_BySolver(m, r) ==
    IF r.solver_used # "NONE"
      THEN [solver |-> r.solver_used,
            solution_cost |-> r.total_distance,
            is_optimal |-> r.is_optimal,
            tour |-> r.tour,
            solution_quality |->
              [feasible |-> TRUE,
               all_cities_visited |-> (Cardinality(Range(ButLast(r.tour))) = m),
               tour_is_cycle |-> IF Len(r.tour) > 1
                                   THEN r.tour[1] = r.tour[Len(r.tour)]
                                   ELSE FALSE]]
      ELSE [solver |-> r.solver_used,
            error |-> "No solution found"]

\* lines 264-303: the dictionary built from solve's tuple (the keys that only
\* repeat the arguments are left out)
MipResult(m, r) ==
    IF r.tour # <<>>
      THEN [solver |-> r.solver_used,
            solution_cost |-> r.total_distance,
            is_optimal |-> r.is_optimal,
            tour |-> r.tour,
            solution_quality |->
              [feasible |-> TRUE,
               all_cities_visited |-> (Cardinality(Range(ButLast(r.tour))) = m),
               tour_is_cycle |-> IF Len(r.tour) > 1
                                   THEN r.tour[1] = r.tour[Len(r.tour)]
                                   ELSE FALSE]]
      ELSE [solver |-> r.solver_used,
            error |-> "No solution found"]

SolveTspWithMip ==
    /\ pc = "solve_returned"
    /\ out' = MipResult(n, result)
    /\ pc' = "mip_returned"
    /\ UNCHANGED <<entry, n, x, attempts, solver_used, status, edges, tour,
                   current, visited, step, unvisited, subtours, start, subtour,
                   repair_called, ret, result, mip_tour, valid>>
    /\ UNCHANGED <<instvars, runvars, extvars>>

\* ------------------------------------------- debug_mip_solutions.py
\* validate_tour without the node-set comparison of lines 49-55
validate_tour_EndsOnly(m, t) ==
    IF t = <<>> THEN FALSE
    ELSE IF Len(t) < 2 THEN FALSE
    ELSE IF t[1] # t[Len(t)] THEN FALSE
    ELSE TRUE

\* lines 34-57: first component of validate_tour's result
validate_tour(m, t) ==
    IF t = <<>> THEN FALSE
    ELSE IF Len(t) < 2 THEN FALSE
    ELSE IF t[1] # t[Len(t)] THEN FALSE
    ELSE IF Range(ButLast(t)) # Nodes(m) THEN FALSE
    ELSE TRUE

\* line 142: mip_tour = mip_result.get('tour', [])
GetTour ==
    /\ pc = "mip_returned"
    /\ mip_tour' = IF "tour" \in DOMAIN out THEN out.tour ELSE <<>>
    /\ pc' = "validate"
    /\ UNCHANGED <<entry, n, x, attempts, solver_used, status, edges, tour,
                   current, visited, step, unvisited, subtours, start, subtour,
                   repair_called, ret, result, out, valid>>
    /\ UNCHANGED <<instvars, runvars, extvars>>

\* line 163 (and 153 for the OR-Tools tour): validate_tour(tsp_data, tour)
Validate ==
    /\ pc = "validate"
    /\ valid' = validate_tour(n, mip_tour)
    /\ pc' = "validated"
    /\ UNCHANGED <<entry, n, x, attempts, solver_used, status, edges, tour,
                   current, visited, step, unvisited, subtours, start, subtour,
                   repair_called, ret, result, out, mip_tour>>
    /\ UNCHANGED <<instvars, runvars, extvars>>

\* ------------------------------------------- utils.py: VRPDataReader.parse
\* A file is a sequence of line tokens, one per line after line.strip():
\*   [kind |-> "blank"], [kind |-> "EOF"],
\*   [kind |-> "NAME", text |-> t], [kind |-> "DIMENSION", value |-> v],
\*   [kind |-> "CAPACITY", value |-> v],
\*   [kind |-> "NODE_COORD_SECTION"], [kind |-> "DEMAND_SECTION"],
\*   [kind |-> "data", parts |-> p]   (p = line.split(), already converted)
\* Coordinates are counted in half units: the integer c stands for c / 2.

\* self.name before a NAME line has been read (Python's None)
NoName == "None"

\* lines 8-16 and 22: the reader's fields after __init__, and section = None
NewReader ==
    [name |-> NoName, dimension |-> None, capacity |-> None,
     node_coords |-> <<>>, demands |-> <<>>, section |-> "None"]

\* d[k] = v on a dict
DictSet(d, k, v) == [i \in (DOMAIN d) \cup {k} |-> IF i = k THEN v ELSE d[i]]

\* lines 24-56: the body of the loop of parse for one line; an EOF line is
\* skipped like a blank one (line 27 continues with the next line)
ParseOne(rd, line) ==
    IF line.kind \in {"blank", "EOF"} THEN rd
    ELSE IF line.kind = "NAME" THEN [rd EXCEPT !.name = line.text]
    ELSE IF line.kind = "DIMENSION" THEN [rd EXCEPT !.dimension = line.value]
    ELSE IF line.kind = "CAPACITY" THEN [rd EXCEPT !.capacity = line.value]
    ELSE IF line.kind = "NODE_COORD_SECTION" THEN [rd EXCEPT !.section = "COORDS"]
    ELSE IF line.kind = "DEMAND_SECTION" THEN [rd EXCEPT !.section = "DEMAND"]
    ELSE IF rd.section = "COORDS"
      THEN IF Len(line.parts) = 3
             THEN [rd EXCEPT !.node_coords =
                     DictSet(rd.node_coords, line.parts[1],
                             <<line.parts[2], line.parts[3]>>)]
             ELSE rd
    ELSE IF rd.section = "DEMAND"
      THEN IF Len(line.parts) = 2
             THEN [rd EXCEPT !.demands =
                     DictSet(rd.demands, line.parts[1], line.parts[2])]
             ELSE rd
    ELSE rd

\* lines 23-56: one pass of `for line in lines`
ParseLine ==
    /\ pc = "parse"
    /\ lineno < Len(lines)
    /\ reader' = ParseOne(reader, lines[lineno + 1])
    /\ eof_read' = (eof_read \/ lines[lineno + 1].kind = "EOF")
    /\ lineno' = lineno + 1
    /\ UNCHANGED <<entry, pc, lines, distance_matrix, num_nodes, tsp_data>>
    /\ UNCHANGED <<tsplocals, runvars, extvars>>

\* line 58: the loop is over, parse returns get_data()
ParseReturn ==
    /\ pc = "parse"
    /\ lineno = Len(lines)
    /\ pc' = "parsed"
    /\ UNCHANGED <<entry, instvars, tsplocals, runvars, extvars>>

\* ---------------------------- utils.py: VRPDataReader.compute_distance_matrix
\* lines 94-95 raise KeyError for a node id without a coordinate entry; the
\* lookups happen only inside `if i != j`
LookupFails(rd) ==
    \E i, j \in 1..rd.dimension :
       i # j /\ ~({i, j} \subseteq DOMAIN rd.node_coords)

\* compute_distance_matrix filling only the entries above the diagonal
compute_distance_matrix_UpperOnly(rd) ==
    [i \in 0..(rd.dimension - 1) |->
       [j \in 0..(rd.dimension - 1) |->
          IF i < j
            THEN RoundHalfUp(SqDist(rd.node_coords[i + 1], rd.node_coords[j + 1]))
            ELSE 0]]

\* lines 87-100: the matrix returned when no lookup fails (0-based indices)
compute_distance_matrix(rd) ==
    [i \in 0..(rd.dimension - 1) |->
       [j \in 0..(rd.dimension - 1) |->
          IF i # j
            THEN RoundHalfUp(SqDist(rd.node_coords[i + 1], rd.node_coords[j + 1]))
            ELSE 0]]

\* ------------------------------------------ tsp_utils.py: TSPDataExtractor
\* lines 26-28: after parse, __init__ requests the distance matrix; a failed
\* lookup leaves __init__ with KeyError and no extractor exists (a file
\* without a DIMENSION line leaves it with TypeError at line 89)
ExtractorInit ==
    /\ pc = "parsed"
    /\ entry = "TSPDataExtractor"
    /\ IF reader.dimension = None
         THEN /\ pc' = "TypeError"
              /\ UNCHANGED distance_matrix
         ELSE IF LookupFails(reader)
         THEN /\ pc' = "KeyError"
              /\ UNCHANGED distance_matrix
         ELSE /\ distance_matrix' = compute_distance_matrix(reader)
              /\ pc' = "ready"
    /\ UNCHANGED <<entry, lines, lineno, eof_read, reader, num_nodes, tsp_data>>
    /\ UNCHANGED <<tsplocals, runvars, extvars>>

\* list(range(a, b))
RangeList(a, b) == [k \in 1..(b - a) |-> a + k - 1]

\* lines 42-43 and 48-49: num_nodes after clamping
Clamped(dim, k, dep) ==
    IF dep THEN (IF k > dim THEN dim ELSE k)
           ELSE (IF k > dim - 1 THEN dim - 1 ELSE k)

\* selected_nodes taking the non-depot prefix from id 1 when the depot is
\* left out
selected_nodes_FromOne(dim, k, dep) ==
    IF dep
      THEN <<1>> \o RangeList(2, Clamped(dim, k, dep) + 1)
      ELSE RangeList(1, Clamped(dim, k, dep) + 1)

\* lines 46 and 52: selected_nodes
selected_nodes(dim, k, dep) ==
    IF dep
      THEN <<1>> \o RangeList(2, Clamped(dim, k, dep) + 1)
      ELSE RangeList(2, Clamped(dim, k, dep) + 2)

\* tsp_coords keyed by the file id instead of by the position
tsp_coords_ById(coords, sel) ==
    [id \in {sel[k] : k \in {h \in 1..Len(sel) : sel[h] \in DOMAIN coords}}
       |-> coords[id]]

\* lines 55-58: tsp_coords, an entry for every position whose id has a
\* coordinate in the parent (0-based keys)
tsp_coords(coords, sel) ==
    [i \in {k - 1 : k \in {h \in 1..Len(sel) : sel[h] \in DOMAIN coords}}
       |-> coords[sel[i + 1]]]

\* the slice taken at the sub-instance's own indices instead of the ids
tsp_distance_matrix_Unmapped(dm, sel) ==
    [i \in 0..(Len(sel) - 1) |-> [j \in 0..(Len(sel) - 1) |-> dm[i][j]]]

\* lines 61-67: tsp_distance_matrix (0-based indices)
tsp_distance_matrix(dm, sel) ==
    [i \in 0..(Len(sel) - 1) |->
       [j \in 0..(Len(sel) - 1) |-> dm[sel[i + 1] - 1][sel[j + 1] - 1]]]

\* line 67 raises IndexError when an id lies beyond the parent's matrix
IndexFails(dm, sel) == \E k \in 1..Len(sel) : (sel[k] - 1) \notin DOMAIN dm

\* lines 70-78: the dictionary returned ('source_vrp_file' left out); the
\* name f"{name}_TSP{num_nodes}" is the pair of its two parts
SubInstance(rd, dm, k, dep) ==
    LET sel == selected_nodes(rd.dimension, k, dep)
    IN  [name |-> <<rd.name, Clamped(rd.dimension, k, dep)>>,
         dimension |-> Len(sel),
         coordinates |-> tsp_coords(rd.node_coords, sel),
         distance_matrix |-> tsp_distance_matrix(dm, sel),
         original_vrp_nodes |-> sel,
         include_depot |-> dep]

\* lines 30-80: one call extract_tsp_subset(k, dep) on the extractor
ExtractTspSubset ==
    /\ pc = "ready"
    /\ \E k \in 0..(MaxDim + 1), dep \in BOOLEAN :
         /\ num_nodes' = k
         /\ IF IndexFails(distance_matrix, selected_nodes(reader.dimension, k, dep))
              THEN /\ pc' = "IndexError"
                   /\ UNCHANGED tsp_data
              ELSE /\ tsp_data' = SubInstance(reader, distance_matrix, k, dep)
                   /\ pc' = "ready"
    /\ UNCHANGED <<entry, lines, lineno, eof_read, reader, distance_matrix>>
    /\ UNCHANGED <<tsplocals, runvars, extvars>>

\* ------------------------------- exp002_large_instances.py: main
\* line 37: tsp_sizes; the instance of size s is tsp_instances[f"tsp{s}"]
tsp_sizes == <<30, 50>>

\* the costs a solver can report
Costs == 1..MaxCost

\* tsp_mip.py lines 267-295, tsp_ortools.py lines 146-171: the keys of a
\* success dictionary that main reads
SuccessResult(model, size, cost, opt) ==
    [model_type |-> model,
     model_params |-> [time_limit_seconds |-> "time_limit"],
     instance_info |-> [dimension |-> size],
     solve_time_seconds |-> 1,
     solution_cost |-> cost,
     is_optimal |-> opt,
     tour |-> <<0, 1, 0>>]

\* tsp_mip.py lines 297-303, tsp_ortools.py lines 173-181: the error
\* dictionary
ErrorResult(model) ==
    [model_type |-> model,
     error |-> "No solution found",
     solve_time_seconds |-> 1]

\* what one call of a solver wrapper can return to main
SolverResults(model, size) ==
    {ErrorResult(model)} \cup
    {SuccessResult(model, size, c, o) : c \in Costs, o \in BOOLEAN}

\* d.get(k, default)
Get(d, k, default) == IF k \in DOMAIN d THEN d[k] ELSE default

\* lines 51-73: one pass of the OR-Tools loop
SolveWithOrtools ==
    /\ pc = "ortools_loop"
    /\ idx < Len(tsp_sizes)
    /\ \E r \in SolverResults("OR-Tools", tsp_sizes[idx + 1]) :
         ortools_results' = Append(ortools_results, r)
    /\ idx' = idx + 1
    /\ UNCHANGED <<entry, pc, mip_results, comparison_data,
                   visualization_files, runs>>
    /\ UNCHANGED <<tsplocals, instvars, extvars>>

\* lines 79-101: one pass of the MIP loop
SolveWithMip ==
    /\ pc = "mip_loop"
    /\ idx < Len(tsp_sizes)
    /\ \E r \in SolverResults("MIP", tsp_sizes[idx + 1]) :
         mip_results' = Append(mip_results, r)
    /\ idx' = idx + 1
    /\ UNCHANGED <<entry, pc, ortools_results, comparison_data,
                   visualization_files, runs>>
    /\ UNCHANGED <<tsplocals, instvars, extvars>>

\* lines 108-124: winner; a cost is float('inf') exactly when the result has
\* no 'solution_cost' (the default of line 108 or 109)
Winner(ortools_result, mip_result) ==
    IF "solution_cost" \notin DOMAIN ortools_result
         /\ "solution_cost" \notin DOMAIN mip_result THEN "None"
    ELSE IF "solution_cost" \notin DOMAIN ortools_result THEN "MIP"
    ELSE IF "solution_cost" \notin DOMAIN mip_result THEN "OR-Tools"
    ELSE IF ortools_result.solution_cost < mip_result.solution_cost THEN "OR-Tools"
    ELSE IF mip_result.solution_cost < ortools_result.solution_cost THEN "MIP"
    ELSE "Tie"

\* lines 107-134: one pass of the comparison loop
Compare ==
    /\ pc = "compare_loop"
    /\ idx < Len(tsp_sizes)
    /\ LET ortools_cost == Get(ortools_results[idx + 1], "solution_cost", Inf)
           mip_cost == Get(mip_results[idx + 1], "solution_cost", Inf)
       IN  comparison_data' =
             Append(comparison_data,
                    [size |-> tsp_sizes[idx + 1],
                     ortools_cost |-> ortools_cost,
                     mip_cost |-> mip_cost,
                     winner |-> Winner(ortools_results[idx + 1],
                                       mip_results[idx + 1])])
    /\ idx' = idx + 1
    /\ UNCHANGED <<entry, pc, ortools_results, mip_results,
                   visualization_files, runs>>
    /\ UNCHANGED <<tsplocals, instvars, extvars>>

\* lines 141-184: one pass of the route visualization loop; the plotting
\* functions accept an empty route
Visualize ==
    /\ pc = "visualize_loop"
    /\ idx < Len(tsp_sizes)
    /\ LET ortools_tour == Get(ortools_results[idx + 1], "tour", <<>>)
           tour_of_mip == Get(mip_results[idx + 1], "tour", <<>>)
           size == tsp_sizes[idx + 1]
       IN  visualization_files' =
             visualization_files
               \o (IF ortools_tour # <<>> \/ tour_of_mip # <<>>
                     THEN << <<size, "route_comparison">> >> ELSE <<>>)
               \o (IF ortools_tour # <<>>
                     THEN << <<size, "ortools_route">> >> ELSE <<>>)
               \o (IF tour_of_mip # <<>>
                     THEN << <<size, "mip_route">> >> ELSE <<>>)
    /\ idx' = idx + 1
    /\ UNCHANGED <<entry, pc, ortools_results, mip_results, comparison_data,
                   runs>>
    /\ UNCHANGED <<tsplocals, instvars, extvars>>

\* lines 51, 79, 107, 141, 250, 287: a loop over the instances is over and
\* main goes on with the next step
NextStep(p) ==
    CASE p = "ortools_loop" -> "mip_loop"
      [] p = "mip_loop" -> "compare_loop"
      [] p = "compare_loop" -> "visualize_loop"
      [] p = "visualize_loop" -> "stats"
      [] p = "log_ortools_loop" -> "log_mip_loop"
      [] p = "log_mip_loop" -> "summary"

LoopDone ==
    /\ pc \in {"ortools_loop", "mip_loop", "compare_loop", "visualize_loop",
               "log_ortools_loop", "log_mip_loop"}
    /\ idx = Len(tsp_sizes)
    /\ pc' = NextStep(pc)
    /\ idx' = 0
    /\ UNCHANGED <<entry, ortools_results, mip_results, comparison_data,
                   visualization_files, runs>>
    /\ UNCHANGED <<tsplocals, instvars, extvars>>

\* lines 188-244: the statistics plot
StatsPlot ==
    /\ pc = "stats"
    /\ visualization_files' = Append(visualization_files, <<0, "stats">>)
    /\ pc' = "log_ortools_loop"
    /\ UNCHANGED <<entry, ortools_results, mip_results, comparison_data,
                   runs, idx>>
    /\ UNCHANGED <<tsplocals, instvars, extvars>>

\* lines 251-282 and 288-319: one MLflow run for a result. Line 255 (292)
\* subscripts result['instance_info'], which raises KeyError for a
\* dictionary without that key; nothing in main catches it
LogRun(solver, results) ==
    IF "instance_info" \in DOMAIN results[idx + 1]
      THEN /\ runs' = Append(runs, <<solver, tsp_sizes[idx + 1]>>)
           /\ idx' = idx + 1
           /\ UNCHANGED pc
      ELSE /\ pc' = "KeyError"
           /\ UNCHANGED <<runs, idx>>

\* lines 250-282: one pass of the loop logging the OR-Tools results
LogOrtools ==
    /\ pc = "log_ortools_loop"
    /\ idx < Len(tsp_sizes)
    /\ LogRun("ortools", ortools_results)
    /\ UNCHANGED <<entry, ortools_results, mip_results, comparison_data,
                   visualization_files>>
    /\ UNCHANGED <<tsplocals, instvars, extvars>>

\* lines 287-319: one pass of the loop logging the MIP results
LogMip ==
    /\ pc = "log_mip_loop"
    /\ idx < Len(tsp_sizes)
    /\ LogRun("mip", mip_results)
    /\ UNCHANGED <<entry, ortools_results, mip_results, comparison_data,
                   visualization_files>>
    /\ UNCHANGED <<tsplocals, instvars, extvars>>

\* lines 324-357: the comparison summary run
Summary ==
    /\ pc = "summary"
    /\ runs' = Append(runs, <<"summary", 0>>)
    /\ pc' = "report"
    /\ UNCHANGED <<entry, ortools_results, mip_results, comparison_data,
                   visualization_files, idx>>
    /\ UNCHANGED <<tsplocals, instvars, extvars>>

\* lines 360-388: cleanup and the final report; main returns
Report ==
    /\ pc = "report"
    /\ pc' = "main_returned"
    /\ UNCHANGED <<entry, runvars, tsplocals, instvars, extvars>>

\* ------------------- tsp_utils.py: the objects of the returned sub-instances
\* A caller (create_multiple_tsp_instances, main of the experiments) keeps
\* several sub-instances of one extractor. Each mutable container is an
\* object with an address: <<0, f>> for the extractor's own, <<h, f>> for
\* field f of the h-th sub-instance kept.
Fields == {"coordinates", "distance_matrix", "original_vrp_nodes"}

\* self.distance_matrix and self.vrp_data['node_coords'] of the extractor
ParentMatrix == <<0, "distance_matrix">>
ParentCoords == <<0, "coordinates">>

\* the coordinate table of a sub-instance being the parent's dict
CoordsObject_Parent(h) == ParentCoords

\* line 55: tsp_coords = {} is a new dict
CoordsObject(h) == <<h, "coordinates">>

\* the matrix of a sub-instance being the parent's array
MatrixObject_Parent(h) == ParentMatrix

\* line 61: tsp_distance_matrix = np.zeros(...) is a new array
MatrixObject(h) == <<h, "distance_matrix">>

\* lines 46 and 52: selected_nodes is a new list
ListObject(h) == <<h, "original_vrp_nodes">>

\* the value of the object at address a
Deref(a) ==
    IF a = ParentMatrix THEN distance_matrix
    ELSE IF a = ParentCoords THEN reader.node_coords
    ELSE heap[a]

\* the object at address a takes the value v
Store(a, v) ==
    IF a = ParentMatrix
      THEN /\ distance_matrix' = v
           /\ UNCHANGED <<heap, reader>>
    ELSE IF a = ParentCoords
      THEN /\ reader' = [reader EXCEPT !.node_coords = v]
           /\ UNCHANGED <<heap, distance_matrix>>
    ELSE /\ heap' = [heap EXCEPT ![a] = v]
         /\ UNCHANGED <<reader, distance_matrix>>

\* lines 119-121 of create_multiple_tsp_instances (lines 40-43 of main):
\* tsp_instances[...] = extract_tsp_subset(k, dep); the returned dictionary
\* refers to the three containers built at lines 46-67
KeepSubInstance ==
    /\ pc = "ready"
    /\ Len(subs) < MaxSubs
    /\ \E k \in 1..MaxDim, dep \in BOOLEAN :
         LET r == SubInstance(reader, distance_matrix, k, dep)
             h == Len(subs) + 1
             objs == [coordinates |-> CoordsObject(h),
                      distance_matrix |-> MatrixObject(h),
                      original_vrp_nodes |-> ListObject(h)]
         IN  /\ ~IndexFails(distance_matrix,
                            selected_nodes(reader.dimension, k, dep))
             /\ subs' = Append(subs, [num_nodes |-> k, include_depot |-> dep,
                                      returned |-> r, objects |-> objs])
             /\ heap' = [a \in (DOMAIN heap)
                                 \cup ({objs[f] : f \in Fields}
                                         \ {ParentMatrix, ParentCoords})
                           |-> IF a = objs.coordinates THEN r.coordinates
                               ELSE IF a = objs.distance_matrix
                                 THEN r.distance_matrix
                               ELSE IF a = objs.original_vrp_nodes
                                 THEN r.original_vrp_nodes
                               ELSE heap[a]]
             /\ num_nodes' = k
             /\ tsp_data' = r
    /\ UNCHANGED <<entry, pc, lines, lineno, eof_read, reader,
                   distance_matrix, written>>
    /\ UNCHANGED <<tsplocals, runvars, loadvars, facvars, delvars>>

\* an in-place change of a container: d[0][0] = 99 on an array,
\* c[0] = (9, 9) on a coordinate table, l.append(0) on a list
Changed(f, v) ==
    IF f = "distance_matrix"
      THEN IF 0 \in DOMAIN v THEN [v EXCEPT ![0][0] = 99] ELSE v
    ELSE IF f = "coordinates" THEN DictSet(v, 0, <<9, 9>>)
    ELSE Append(v, 0)

\* the caller changes, in place, one container of a sub-instance it keeps
CallerWrite ==
    /\ pc = "ready"
    /\ Cardinality(written) < MaxWrites
    /\ \E h \in 1..Len(subs), f \in Fields :
         /\ <<h, f>> \notin written
         /\ written' = written \cup {<<h, f>>}
         /\ Store(subs[h].objects[f], Changed(f, Deref(subs[h].objects[f])))
    /\ UNCHANGED <<entry, pc, lines, lineno, eof_read, num_nodes, tsp_data,
                   subs>>
    /\ UNCHANGED <<tsplocals, runvars, loadvars, facvars, delvars>>

\* ------------------------------------------ tsp_utils.py: load_tsp_instance
\* lines 138-143: tsp_data before the file is read ('distance_matrix': None)
NewLoaded ==
    [name |-> "", dimension |-> 0, coordinates |-> <<>>, distance_matrix |-> <<>>]

\* lines 153-167: the body of the loop for one line other than EOF; a
\* coordinate line is stored under its id minus one
LoadOne(td, rc, line) ==
    IF line.kind = "NAME" THEN [td EXCEPT !.name = line.text]
    ELSE IF line.kind = "DIMENSION" THEN [td EXCEPT !.dimension = line.value]
    ELSE IF line.kind = "NODE_COORD_SECTION" THEN td
    ELSE IF rc /\ line.kind = "data"
      THEN IF Len(line.parts) >= 3
             THEN [td EXCEPT !.coordinates =
                     DictSet(td.coordinates, line.parts[1] - 1,
                             <<line.parts[2], line.parts[3]>>)]
             ELSE td
    ELSE td

\* lines 150-167: one pass of `for line in lines`; the EOF line breaks
LoadLine ==
    /\ pc = "load"
    /\ lineno < Len(lines)
    /\ LET line == lines[lineno + 1]
       IN  IF line.kind = "EOF"
             THEN /\ pc' = "load_compute"
                  /\ UNCHANGED <<loaded, reading_coords>>
             ELSE /\ loaded' = LoadOne(loaded, reading_coords, line)
                  /\ reading_coords' =
                       (reading_coords \/ line.kind = "NODE_COORD_SECTION")
                  /\ UNCHANGED pc
    /\ lineno' = lineno + 1
    /\ UNCHANGED <<entry, lines, eof_read, reader, distance_matrix, num_nodes,
                   tsp_data>>
    /\ UNCHANGED <<tsplocals, runvars, sharevars, facvars, delvars>>

\* the loop of lines 150-167 ran out of lines
LoadLinesDone ==
    /\ pc = "load"
    /\ lineno = Len(lines)
    /\ pc' = "load_compute"
    /\ UNCHANGED <<entry, instvars, tsplocals, runvars, extvars>>

\* line 179: round(distance) for distance = sqrt(d2h) / 2. Python's round
\* sends a fraction of exactly one half to the even neighbour
round(d2h) ==
    LET s == ISqrt(d2h)
        q == s \div 2
    IN  IF s * s = d2h /\ s % 2 = 1
          THEN IF q % 2 = 0 THEN q ELSE q + 1
          ELSE (s + 1) \div 2

\* lines 176-177 raise KeyError for an index without a coordinate
LoadLookupFails(td) ==
    \E i, j \in 0..(td.dimension - 1) :
       i # j /\ ~({i, j} \subseteq DOMAIN td.coordinates)

\* lines 170-183: the distance matrix is computed and the dictionary returned
LoadCompute ==
    /\ pc = "load_compute"
    /\ IF LoadLookupFails(loaded)
         THEN /\ pc' = "KeyError"
              /\ UNCHANGED loaded
         ELSE /\ loaded' =
                   [loaded EXCEPT !.distance_matrix =
                      [i \in 0..(loaded.dimension - 1) |->
                         [j \in 0..(loaded.dimension - 1) |->
                            IF i # j
                              THEN round(SqDist(loaded.coordinates[i],
                                                loaded.coordinates[j]))
                              ELSE 0]]]
              /\ pc' = "load_returned"
    /\ UNCHANGED <<entry, instvars, tsplocals, runvars, sharevars,
                   reading_coords, facvars, delvars>>

\* ------------------------- facility_mip.py: MIPFacilityLocationSolver
\* the elements of a set of integers in ascending order: the order in which
\* _extract_assignments (lines 164-168) inserts the keys of the dictionary
RECURSIVE Ascending(_)
Ascending(S) ==
    IF S = {} THEN <<>> ELSE <<SetMin(S)>> \o Ascending(S \ {SetMin(S)})

\* lines 186-188: one error for every assignment to a facility that is not
\* in facility_locations, in the dictionary's order
RECURSIVE ClosedFacilityErrors(_, _, _)
ClosedFacilityErrors(keys, fl, asg) ==
    IF keys = <<>> THEN <<>>
    ELSE (IF asg[Head(keys)] \notin Range(fl)
            THEN <<[kind |-> "closed_facility", demand_point |-> Head(keys),
                    facility |-> asg[Head(keys)]]>>
            ELSE <<>>)
         \o ClosedFacilityErrors(Tail(keys), fl, asg)

\* lines 191-193: one error for every demand point of range(n) without an
\* assignment
RECURSIVE UnassignedErrors(_, _, _)
UnassignedErrors(i, m, asg) ==
    IF i >= m THEN <<>>
    ELSE (IF i \notin DOMAIN asg
            THEN <<[kind |-> "unassigned", demand_point |-> i]>>
            ELSE <<>>)
         \o UnassignedErrors(i + 1, m, asg)

\* validate_solution without the comparison of len(assignments) with n of
\* lines 181-183
validate_solution_NoLenCheck(p, m, fl, asg) ==
    (IF Len(fl) # p THEN <<[kind |-> "facility_count"]>> ELSE <<>>)
      \o ClosedFacilityErrors(Ascending(DOMAIN asg), fl, asg)
      \o UnassignedErrors(0, m, asg)

\* lines 175-193: the error list validate_solution builds for p facilities
\* requested and m demand points
validate_solution(p, m, fl, asg) ==
    (IF Len(fl) # p THEN <<[kind |-> "facility_count"]>> ELSE <<>>)
      \o (IF Cardinality(DOMAIN asg) # m
            THEN <<[kind |-> "assignment_count"]>> ELSE <<>>)
      \o ClosedFacilityErrors(Ascending(DOMAIN asg), fl, asg)
      \o UnassignedErrors(0, m, asg)

\* lines 173-196: validate_solution(facility_locations, assignments)
ValidateSolution ==
    /\ pc = "fac_validate"
    /\ errors' = validate_solution(num_facilities, n, facility_locations,
                                   assignments)
    /\ is_valid' = (Len(errors') = 0)
    /\ pc' = "fac_validated"
    /\ UNCHANGED <<entry, tsplocals, instvars, runvars, sharevars, loadvars,
                   delvars, num_facilities, facility_locations, assignments>>

\* ------------------------------------------------------ delete_tai_runs.py
\* A run is [has_name |-> BOOLEAN, run_name |-> sequence of characters]; its
\* run_id is its position in the list search_runs returns.

\* line 29: the instance names looked for
tai_instances ==
    {<<"t", "a", "i", "7", "5", "a">>,
     <<"t", "a", "i", "1", "0", "0", "a">>,
     <<"t", "a", "i", "1", "5", "0", "a">>,
     <<"t", "a", "i", "3", "8", "5">>}

\* str.lower() on the characters that occur in the names
LowerChar(c) ==
    IF c = "T" THEN "t"
    ELSE IF c = "A" THEN "a"
    ELSE IF c = "I" THEN "i"
    ELSE IF c = "X" THEN "x"
    ELSE c

Lower(s) == [k \in 1..Len(s) |-> LowerChar(s[k])]

\* `p in s` for strings
Contains(s, p) ==
    \E k \in 0..(Len(s) - Len(p)) : SubSeq(s, k + 1, k + Len(p)) = p

\* line 28: run.info.run_name or ""
NameOrEmpty(run) == IF run.has_name THEN run.run_name ELSE <<>>

\* IsTaiRun without the .lower() of line 29
IsTaiRun_CaseSensitive(run) ==
    \E instance \in tai_instances : Contains(NameOrEmpty(run), instance)

\* lines 28-29: the test that puts a run on the deletion list
IsTaiRun(run) ==
    \E instance \in tai_instances : Contains(Lower(NameOrEmpty(run)), instance)

\* lines 26-30: the run_ids of the runs kept for deletion, in list order
RECURSIVE TaiRunsFrom(_, _)
TaiRunsFrom(rs, k) ==
    IF k > Len(rs) THEN <<>>
    ELSE (IF IsTaiRun(rs[k]) THEN <<k>> ELSE <<>>) \o TaiRunsFrom(rs, k + 1)

\* lines 24-32: search_runs either raises (caught at line 41) or returns
\* the runs, from which tai_runs is built
SearchRuns ==
    /\ pc = "del_search"
    /\ \/ /\ pc' = "del_except"
          /\ UNCHANGED tai_runs
       \/ /\ tai_runs' = TaiRunsFrom(listed, 1)
          /\ pc' = "del_delete"
    /\ delpos' = 0
    /\ UNCHANGED <<entry, tsplocals, instvars, runvars, sharevars, loadvars,
                   facvars, listed, deleted>>

\* lines 35-37: one pass of `for run in tai_runs`; delete_run either deletes
\* the run or raises (caught at line 41)
DeleteRun ==
    /\ pc = "del_delete"
    /\ delpos < Len(tai_runs)
    /\ \/ /\ deleted' = deleted \cup {tai_runs[delpos + 1]}
          /\ delpos' = delpos + 1
          /\ UNCHANGED pc
       \/ /\ pc' = "del_except"
          /\ UNCHANGED <<deleted, delpos>>
    /\ UNCHANGED <<entry, tsplocals, instvars, runvars, sharevars, loadvars,
                   facvars, listed, tai_runs>>

\* lines 39 and 44: the loop is over, the script prints and ends
DeleteDone ==
    /\ pc = "del_delete"
    /\ delpos = Len(tai_runs)
    /\ pc' = "del_done"
    /\ UNCHANGED <<entry, tsplocals, instvars, runvars, extvars>>

\* lines 41-44: the except clause prints the error, the script prints its
\* last line and ends
DeleteExcept ==
    /\ pc = "del_except"
    /\ pc' = "del_done_after_error"
    /\ UNCHANGED <<entry, tsplocals, instvars, runvars, extvars>>

\* ---------------------------------------------------------- specifications
\* the reader, the extractor and the runner before they have run
FreshInstance ==
    /\ lines = <<>>
    /\ lineno = 0
    /\ eof_read = FALSE
    /\ reader = NewReader
    /\ distance_matrix = <<>>
    /\ num_nodes = 0
    /\ tsp_data = NoResult

FreshRun ==
    /\ ortools_results = <<>>
    /\ mip_results = <<>>
    /\ comparison_data = <<>>
    /\ visualization_files = <<>>
    /\ runs = <<>>
    /\ idx = 0

\* the callers and scripts modelled further down, before they have run
FreshExt ==
    /\ heap = <<>>
    /\ subs = <<>>
    /\ written = {}
    /\ reading_coords = FALSE
    /\ loaded = NoResult
    /\ num_facilities = 0
    /\ facility_locations = <<>>
    /\ assignments = <<>>
    /\ errors = <<>>
    /\ is_valid = FALSE
    /\ listed = <<>>
    /\ tai_runs = <<>>
    /\ deleted = {}
    /\ delpos = 0

\* the locals of the functions that have not run yet
Fresh ==
    /\ x = {}
    /\ attempts = <<>>
    /\ solver_used = "None"
    /\ status = "Not Solved"
    /\ edges = <<>>
    /\ tour = <<>>
    /\ current = None
    /\ visited = {}
    /\ step = 0
    /\ unvisited = {}
    /\ subtours = <<>>
    /\ start = None
    /\ subtour = <<>>
    /\ repair_called = FALSE
    /\ ret = <<>>
    /\ result = NoResult
    /\ out = NoResult
    /\ mip_tour = <<>>
    /\ valid = FALSE

\* solve_tsp_with_mip(tsp_data) followed by the caller's validate_tour, for
\* every dimension up to MaxN
Init ==
    /\ entry = "solve_tsp_with_mip"
    /\ pc = "solve_loop"
    /\ n \in 1..MaxN
    /\ Fresh
    /\ FreshInstance
    /\ FreshRun
    /\ FreshExt

Next ==
    \/ SolverAttempt
    \/ SolveFailed
    \/ ExtractBegin
    \/ WalkStep
    \/ WalkVerify
    \/ SubtourStart
    \/ SubtourStep
    \/ SubtourSelect
    \/ SolveReturn
    \/ SolveTspWithMip
    \/ GetTour
    \/ Validate

Spec == Init /\ [][Next]_vars


\* every successor map _handle_subtours can be given for m nodes: a dict
\* from some of the nodes to another node each
SuccessorMaps(m) ==
    UNION {{e \in [d -> Nodes(m)] : \A i \in d : e[i] # i} : d \in SUBSET Nodes(m)}

\* _handle_subtours(edges) called on its own, for every successor map
InitRepair ==
    /\ entry = "_handle_subtours"
    /\ pc = "hs_outer"
    /\ n \in 1..MaxRepairN
    /\ edges \in SuccessorMaps(n)
    /\ unvisited = Nodes(n)
    /\ subtours = <<>>
    /\ repair_called = TRUE
    /\ x = {}
    /\ attempts = <<>>
    /\ solver_used = "None"
    /\ status = "Not Solved"
    /\ tour = <<>>
    /\ current = None
    /\ visited = {}
    /\ step = 0
    /\ start = None
    /\ subtour = <<>>
    /\ ret = <<>>
    /\ result = NoResult
    /\ out = NoResult
    /\ mip_tour = <<>>
    /\ valid = FALSE
    /\ FreshInstance
    /\ FreshRun
    /\ FreshExt

NextRepair ==
    \/ SubtourStart
    \/ SubtourStep
    \/ SubtourSelect

SpecRepair == InitRepair /\ [][NextRepair]_vars

\* the tours a caller can hand to validate_tour for dimension m: any list of
\* at most m + 1 + MaxExtra node ids, the id m (no node of the instance)
\* included
Tours(m) == UNION {[1..k -> 0..m] : k \in 0..(m + 1 + MaxExtra)}

\* validate_tour(tsp_data, tour) called on an arbitrary tour, as for the
\* tour of another solver (line 153)
InitValidate ==
    /\ entry = "validate_tour"
    /\ pc = "validate"
    /\ n \in 1..MaxTourN
    /\ mip_tour \in Tours(n)
    /\ x = {}
    /\ attempts = <<>>
    /\ solver_used = "None"
    /\ status = "Not Solved"
    /\ edges = <<>>
    /\ tour = <<>>
    /\ current = None
    /\ visited = {}
    /\ step = 0
    /\ unvisited = {}
    /\ subtours = <<>>
    /\ start = None
    /\ subtour = <<>>
    /\ repair_called = FALSE
    /\ ret = <<>>
    /\ result = NoResult
    /\ out = NoResult
    /\ valid = FALSE
    /\ FreshInstance
    /\ FreshRun
    /\ FreshExt

NextValidate == Validate

SpecValidate == InitValidate /\ [][NextValidate]_vars

\* the coordinates a line of the coordinate section can carry, in half units
YCoords == {0, 5}
Points == (0..MaxCoord) \X YCoords

\* the dicts node id -> coordinate a coordinate section can give
CoordMaps == UNION {[D -> Points] : D \in SUBSET (1..MaxDim)}

\* the k-th smallest element of a set of integers
KthSmallest(S, k) == CHOOSE i \in S : Cardinality({j \in S : j < i}) = k - 1

\* the coordinate section of a file giving the coordinates c, ids ascending
CoordRows(c) ==
    [k \in 1..Cardinality(DOMAIN c) |->
       [kind |-> "data",
        parts |-> <<KthSmallest(DOMAIN c, k),
                    c[KthSmallest(DOMAIN c, k)][1],
                    c[KthSmallest(DOMAIN c, k)][2]>>]]

\* a file declaring dimension d (no DIMENSION line when d is None) and
\* giving the coordinates c, closed by the end marker
InstanceFile(d, c) ==
    <<[kind |-> "NAME", text |-> "tai"]>>
      \o (IF d = None THEN <<>> ELSE <<[kind |-> "DIMENSION", value |-> d]>>)
      \o <<[kind |-> "NODE_COORD_SECTION"]>>
      \o CoordRows(c)
      \o <<[kind |-> "EOF"]>>

\* the MIP wrapper's and validate_tour's state while they are not running
IdleTsp ==
    /\ n = 0
    /\ Fresh

\* TSPDataExtractor(vrp_file) followed by calls of extract_tsp_subset, for
\* every such file with dimension up to MaxDim
InitInstance ==
    /\ entry = "TSPDataExtractor"
    /\ pc = "parse"
    /\ \E d \in {None} \cup (0..MaxDim), c \in CoordMaps :
         lines = InstanceFile(d, c)
    /\ lineno = 0
    /\ eof_read = FALSE
    /\ reader = NewReader
    /\ distance_matrix = <<>>
    /\ num_nodes = 0
    /\ tsp_data = NoResult
    /\ IdleTsp
    /\ FreshRun
    /\ FreshExt

NextInstance ==
    \/ ParseLine
    \/ ParseReturn
    \/ ExtractorInit
    \/ ExtractTspSubset

SpecInstance == InitInstance /\ [][NextInstance]_vars

\* the lines a file handed to parse is made of
LineAlphabet ==
    {[kind |-> "blank"], [kind |-> "EOF"],
     [kind |-> "NODE_COORD_SECTION"], [kind |-> "DEMAND_SECTION"],
     [kind |-> "NAME", text |-> "tai"],
     [kind |-> "DIMENSION", value |-> 1], [kind |-> "DIMENSION", value |-> 2],
     [kind |-> "CAPACITY", value |-> 1],
     [kind |-> "data", parts |-> <<1, 0, 0>>],
     [kind |-> "data", parts |-> <<2, 1, 0>>],
     [kind |-> "data", parts |-> <<1, 1>>],
     [kind |-> "data", parts |-> <<2, 2>>]}

\* every file of at most MaxLines lines
Files == UNION {[1..k -> LineAlphabet] : k \in 0..MaxLines}

\* VRPDataReader(vrp_file).parse() on its own, for every such file
InitParse ==
    /\ entry = "VRPDataReader.parse"
    /\ pc = "parse"
    /\ lines \in Files
    /\ lineno = 0
    /\ eof_read = FALSE
    /\ reader = NewReader
    /\ distance_matrix = <<>>
    /\ num_nodes = 0
    /\ tsp_data = NoResult
    /\ IdleTsp
    /\ FreshRun
    /\ FreshExt

NextParse ==
    \/ ParseLine
    \/ ParseReturn

SpecParse == InitParse /\ [][NextParse]_vars

\* main of the large-instance experiment from step 2 on, the instances of
\* tsp_sizes having been created
InitRunner ==
    /\ entry = "main"
    /\ pc = "ortools_loop"
    /\ FreshRun
    /\ FreshExt
    /\ FreshInstance
    /\ IdleTsp

NextRunner ==
    \/ SolveWithOrtools
    \/ SolveWithMip
    \/ Compare
    \/ Visualize
    \/ LoopDone
    \/ StatsPlot
    \/ LogOrtools
    \/ LogMip
    \/ Summary
    \/ Report

SpecRunner == InitRunner /\ [][NextRunner]_vars


\* a file of d nodes, every node with a coordinate
FullFile(d) == InstanceFile(d, [id \in 1..d |-> <<id % (MaxCoord + 1), 0>>])

\* TSPDataExtractor(vrp_file), then a caller that keeps up to MaxSubs
\* sub-instances and writes to up to MaxWrites of their containers
InitShare ==
    /\ entry = "TSPDataExtractor"
    /\ pc = "parse"
    /\ \E d \in 1..MaxDim : lines = FullFile(d)
    /\ lineno = 0
    /\ eof_read = FALSE
    /\ reader = NewReader
    /\ distance_matrix = <<>>
    /\ num_nodes = 0
    /\ tsp_data = NoResult
    /\ IdleTsp
    /\ FreshRun
    /\ FreshExt

NextShare ==
    \/ ParseLine
    \/ ParseReturn
    \/ ExtractorInit
    \/ KeepSubInstance
    \/ CallerWrite

SpecShare == InitShare /\ [][NextShare]_vars


\* load_tsp_instance(tsp_file) for every file of the family handed to
\* TSPDataExtractor (the layout save_tsp_instance writes), with and without
\* its closing EOF line
InitLoad ==
    /\ entry = "load_tsp_instance"
    /\ pc = "load"
    /\ \E d \in {None} \cup (0..MaxDim), c \in CoordMaps, eof \in BOOLEAN :
         LET file == InstanceFile(d, c)
         IN  lines = IF eof THEN file ELSE SubSeq(file, 1, Len(file) - 1)
    /\ lineno = 0
    /\ eof_read = FALSE
    /\ reader = NewReader
    /\ distance_matrix = <<>>
    /\ num_nodes = 0
    /\ tsp_data = NoResult
    /\ IdleTsp
    /\ FreshRun
    /\ heap = <<>>
    /\ subs = <<>>
    /\ written = {}
    /\ reading_coords = FALSE
    /\ loaded = NewLoaded
    /\ num_facilities = 0
    /\ facility_locations = <<>>
    /\ assignments = <<>>
    /\ errors = <<>>
    /\ is_valid = FALSE
    /\ listed = <<>>
    /\ tai_runs = <<>>
    /\ deleted = {}
    /\ delpos = 0

NextLoad ==
    \/ LoadLine
    \/ LoadLinesDone
    \/ LoadCompute

SpecLoad == InitLoad /\ [][NextLoad]_vars


\* lists of at most k elements of S
ListsUpTo(S, k) == UNION {[1..l -> S] : l \in 0..k}

\* dictionaries with keys from K and values from V
Dicts(K, V) == UNION {[D -> V] : D \in SUBSET K}

\* validate_solution called with any list of facilities and any dictionary of
\* assignments over up to MaxPoints locations (the key MaxPoints is never a
\* demand point), for up to MaxFacilities requested facilities
InitFacility ==
    /\ entry = "validate_solution"
    /\ pc = "fac_validate"
    /\ n \in 0..MaxPoints
    /\ num_facilities \in 0..MaxFacilities
    /\ facility_locations \in ListsUpTo(0..(MaxPoints - 1), MaxFacilities)
    /\ assignments \in Dicts(0..MaxPoints, 0..(MaxPoints - 1))
    /\ errors = <<>>
    /\ is_valid = FALSE
    /\ Fresh
    /\ FreshInstance
    /\ FreshRun
    /\ heap = <<>>
    /\ subs = <<>>
    /\ written = {}
    /\ reading_coords = FALSE
    /\ loaded = NoResult
    /\ listed = <<>>
    /\ tai_runs = <<>>
    /\ deleted = {}
    /\ delpos = 0

NextFacility == ValidateSolution

SpecFacility == InitFacility /\ [][NextFacility]_vars


\* run names: none, the empty one, names with an instance name in lower,
\* upper and mixed case, and names without one
RunNames ==
    {<<>>,
     <<"t", "a", "i", "7", "5", "a">>,
     <<"T", "A", "I", "1", "0", "0", "A">>,
     <<"X", "_", "T", "a", "i", "1", "5", "0", "a", "_", "2">>,
     <<"t", "a", "i", "3", "8", "5">>,
     <<"t", "a", "i", "7", "5">>,
     <<"t", "a", "i", "7", "5", "b">>,
     <<"t", "s", "p", "3", "0">>}

Runs ==
    {[has_name |-> FALSE, run_name |-> <<>>]}
      \cup {[has_name |-> TRUE, run_name |-> s] : s \in RunNames}

\* the script run against an experiment holding up to MaxRuns runs; listed
\* is what search_runs returns when it does not fail
InitDelete ==
    /\ entry = "delete_tai_runs"
    /\ pc = "del_search"
    /\ listed \in ListsUpTo(Runs, MaxRuns)
    /\ tai_runs = <<>>
    /\ deleted = {}
    /\ delpos = 0
    /\ IdleTsp
    /\ FreshInstance
    /\ FreshRun
    /\ heap = <<>>
    /\ subs = <<>>
    /\ written = {}
    /\ reading_coords = FALSE
    /\ loaded = NoResult
    /\ num_facilities = 0
    /\ facility_locations = <<>>
    /\ assignments = <<>>
    /\ errors = <<>>
    /\ is_valid = FALSE

NextDelete ==
    \/ SearchRuns
    \/ DeleteRun
    \/ DeleteDone
    \/ DeleteExcept

SpecDelete == InitDelete /\ [][NextDelete]_vars


\* ============================================================== properties
\* the successors selected for node i in an assignment
Out(sel, i) == {p[2] : p \in {q \in sel : q[1] = i}}
In(sel, j) == {p[1] : p \in {q \in sel : q[2] = j}}

\* every node of 0..m-1 has exactly one selected outgoing edge
OneOut(m, sel) == \A i \in Nodes(m) : Cardinality(Out(sel, i)) = 1
OneIn(m, sel) == \A j \in Nodes(m) : Cardinality(In(sel, j)) = 1

\* the node reached from i after k selected edges (for OneOut assignments)
RECURSIVE Iter(_, _, _)
Iter(sel, i, k) ==
    IF k = 0 THEN i ELSE Iter(sel, CHOOSE j \in Out(sel, i) : TRUE, k - 1)

\* the assignment is one cycle through all m nodes
SingleCycle(m, sel) ==
    /\ OneOut(m, sel)
    /\ \A k \in 1..(m - 1) : Iter(sel, 0, k) # 0
    /\ Iter(sel, 0, m) = 0

\* _extract_tour has just returned ret
ExtractReturned == pc = "extract_returned"

\* C1: for every n >= 2 and every assignment that is a single cycle through
\* all n nodes, _extract_tour returns n + 1 entries, starting and ending at
\* node 0, holding every node exactly once before the closing 0, each entry
\* followed by its selected successor.
C1_SingleCycleTour ==
    (ExtractReturned /\ n >= 2 /\ SingleCycle(n, x)) =>
        /\ Len(ret) = n + 1
        /\ ret[1] = 0
        /\ ret[n + 1] = 0
        /\ \A v \in Nodes(n) : Cardinality({k \in 1..n : ret[k] = v}) = 1
        /\ \A k \in 1..n : ret[k + 1] = Iter(x, ret[k], 1)

C1_Witness ==
    ExtractReturned /\ n >= 3 /\ SingleCycle(n, x) /\ Len(ret) = n + 1

\* the nodes on the cycle of node i (for assignments that are permutations)
Orbit(m, sel, i) == {Iter(sel, i, k) : k \in 0..(m - 1)}

\* the assignment is exactly two disjoint cycles, one through node 0
TwoCycles(m, sel) ==
    /\ OneOut(m, sel)
    /\ OneIn(m, sel)
    /\ Orbit(m, sel, 0) # Nodes(m)
    /\ \A r \in Nodes(m) \ Orbit(m, sel, 0) :
         Orbit(m, sel, r) = Nodes(m) \ Orbit(m, sel, 0)

\* C2: for an assignment made of exactly two disjoint cycles, one of length k
\* through node 0 and one of length n - k without it, _extract_tour returns
\* the cycle of node 0 in successor order, starting at 0 and closed by 0, so
\* k + 1 entries.
C2_TwoCyclesDepotCycle ==
    (ExtractReturned /\ TwoCycles(n, x)) =>
        LET k == Cardinality(Orbit(n, x, 0))
        IN  /\ Len(ret) = k + 1
            /\ \A t \in 1..(k + 1) : ret[t] = Iter(x, 0, t - 1)
            /\ ret[k + 1] = 0

C2_Witness ==
    ExtractReturned /\ TwoCycles(n, x) /\ repair_called /\ Len(ret) = 3

\* C3: when node 0 has no selected outgoing edge, _extract_tour returns the
\* empty tour, whatever the other nodes' edges are, and _handle_subtours is
\* not invoked.
C3_NoDepotEdgeEmpty ==
    (ExtractReturned /\ Out(x, 0) = {}) => (ret = <<>> /\ ~repair_called)

C3_Witness ==
    ExtractReturned /\ Out(x, 0) = {} /\ Cardinality(x) >= 3 /\ ret = <<>>


\* C4: whenever _extract_tour returns n + 1 entries, every consecutive pair
\* of them, the closing pair (last visited node, 0) included, is an edge
\* selected in the assignment.
C4_FullTourUsesSelectedEdges ==
    (ExtractReturned /\ Len(ret) = n + 1) =>
        \A k \in 1..n : <<ret[k], ret[k + 1]>> \in x

\* no entry of s before its last one occurs twice
NoRepeatBeforeClose(s) ==
    \A a, b \in 1..(Len(s) - 1) : s[a] = s[b] => a = b

\* C5: for any 0/1 assignment over the pairs i # j, _extract_tour returns, and
\* what it returns is the empty sequence or a sequence that starts and ends
\* at node 0, has at most n + 1 entries and repeats no node other than the
\* closing 0.
C5_TolerantShape ==
    ExtractReturned =>
        \/ ret = <<>>
        \/ /\ Len(ret) >= 2
           /\ Len(ret) <= n + 1
           /\ ret[1] = 0
           /\ ret[Len(ret)] = 0
           /\ NoRepeatBeforeClose(ret)
           /\ Range(ret) \subseteq Nodes(n)

\* an assignment in which some node has several outgoing edges, some node
\* several incoming ones and some node no outgoing edge
C5_Witness ==
    /\ ExtractReturned
    /\ ret # <<>>
    /\ \E i \in Nodes(n) : Cardinality(Out(x, i)) > 1
    /\ \E i \in Nodes(n) : Cardinality(In(x, i)) > 1
    /\ \E i \in Nodes(n) : Out(x, i) = {}

\* st is a cycle of the successor map e: each element's successor is the next
\* element and the successor of the last element is the first
IsCycle(e, st) ==
    /\ \A k \in 1..(Len(st) - 1) : EdgesGet(e, st[k]) = st[k + 1]
    /\ EdgesGet(e, st[Len(st)]) = st[1]

\* C6: every sequence _handle_subtours keeps in subtours, and so every
\* sequence it returns after closing, is a cycle of the successor map.
C6_CollectedAreCycles ==
    /\ \A k \in 1..Len(subtours) : IsCycle(edges, subtours[k])
    /\ (pc \in {"hs_returned", "extract_returned"} /\ repair_called /\ ret # <<>>)
         => IsCycle(edges, ButLast(ret))


\* _handle_subtours has just returned ret
RepairReturned == pc = "hs_returned"

\* positions of the collected subtours that contain node 0
WithDepot == {k \in 1..Len(subtours) : 0 \in Range(subtours[k])}

\* positions of the longest collected subtours
Longest == {k \in 1..Len(subtours) :
              \A j \in 1..Len(subtours) : Len(subtours[j]) <= Len(subtours[k])}

\* st read cyclically from its position p on, then its first entry again
RotatedClosed(st, p) ==
    [t \in 1..(Len(st) + 1) |-> st[((p - 1 + t - 1) % Len(st)) + 1]]

C7_TieWitness ==
    /\ RepairReturned
    /\ WithDepot = {}
    /\ Len(subtours) = 2
    /\ Len(subtours[1]) = Len(subtours[2])
    /\ ret = RotatedClosed(subtours[1], 1)


\* the caller has validated the tour of solve_tsp_with_mip's result
Validated == pc = "validated" /\ entry = "solve_tsp_with_mip"

\* C8: a non-empty tour returned by _extract_tour that visits fewer than n
\* distinct nodes is rejected by the caller-side checks: validate_tour
\* returns False for it and solve_tsp_with_mip's result dictionary carries
\* solution_quality.all_cities_visited = False.
C8_IncompleteTourRejected ==
    (Validated /\ ret # <<>> /\ Cardinality(Range(ret)) < n) =>
        /\ mip_tour = ret
        /\ valid = FALSE
        /\ "solution_quality" \in DOMAIN out
        /\ out.solution_quality.all_cities_visited = FALSE

\* the two 2-cycles on 4 nodes: the repaired tour [0, 1, 0] was validated
C8_Witness ==
    /\ Validated
    /\ n = 4
    /\ x = {<<0, 1>>, <<1, 0>>, <<2, 3>>, <<3, 2>>}
    /\ ret = <<0, 1, 0>>
    /\ repair_called

\* C9: validate_tour accepts a tour only if it starts and ends at the same
\* node and every node of 0..n-1 appears exactly once among the entries
\* before the closing node.
C9_ValidMeansEachNodeOnce ==
    (pc = "validated" /\ valid) =>
        /\ mip_tour # <<>>
        /\ mip_tour[1] = mip_tour[Len(mip_tour)]
        /\ \A v \in Nodes(n) :
             Cardinality({k \in 1..(Len(mip_tour) - 1) : mip_tour[k] = v}) = 1

\* every pass of the solver loop ended with an exception or with a status
\* that carries no solution
AllSolversFailed ==
    /\ Len(attempts) = Len(solvers_to_try)
    /\ \A k \in 1..Len(attempts) : attempts[k] \in {"raised", "no_solution"}

\* the positions of a run of solve_tsp_with_mip in which no exception is
\* under way
NormalPc ==
    {"solve_loop", "extract", "walk", "walk_done", "hs_outer", "hs_inner",
     "hs_select", "extract_returned", "solve_returned", "mip_returned",
     "validate", "validated"}

\* C10: when every solver of the list raised or ended with a status other
\* than Optimal/Feasible, solve returns the failure marker (empty tour,
\* infinite cost, is_optimal False, solver name "NONE"), and no exception of
\* a solver attempt leaves solve.
C10_FailureIsAValue ==
    /\ pc \in NormalPc
    /\ (AllSolversFailed /\ pc # "solve_loop") =>
          /\ result.tour = <<>>
          /\ result.total_distance = Inf
          /\ result.is_optimal = FALSE
          /\ result.solver_used = "NONE"

\* all three attempts failed, one of them by an exception and one by its
\* status, and solve has returned
C10_Witness ==
    /\ pc = "solve_returned"
    /\ AllSolversFailed
    /\ \E k \in 1..3 : attempts[k] = "raised"
    /\ \E k \in 1..3 : attempts[k] = "no_solution"
    /\ result = FailureMarker

\* solve_tsp_with_mip has returned its dictionary
MipReturned ==
    /\ entry = "solve_tsp_with_mip"
    /\ pc \in {"mip_returned", "validate", "validated"}

\* the dictionary is the error dictionary: an "error" entry and none of
\* "tour", "solution_cost", "solution_quality"
IsErrorDict(d) ==
    /\ "error" \in DOMAIN d
    /\ DOMAIN d \cap {"tour", "solution_cost", "solution_quality"} = {}

\* the dictionary is the success dictionary
IsSuccessDict(d) ==
    /\ {"tour", "solution_cost", "solution_quality"} \subseteq DOMAIN d
    /\ "error" \notin DOMAIN d

\* C11: solve_tsp_with_mip returns the error dictionary (an "error" entry,
\* no "tour", "solution_cost" or "solution_quality") exactly when the tour
\* returned by solve is empty, and the success dictionary exactly when that
\* tour is non-empty.
C11_EmptyTourIsError ==
    MipReturned =>
      /\ IsErrorDict(out) <=> (result.tour = <<>>)
      /\ IsSuccessDict(out) <=> (result.tour # <<>>)

\* a solver succeeded, extraction returned the empty tour, and the caller
\* got the error dictionary
C11_Witness ==
    /\ MipReturned
    /\ solver_used # "None"
    /\ result.tour = <<>>
    /\ IsErrorDict(out)

\* some solver wrapper has returned its error dictionary to main
SomeErrorResult ==
    \/ \E k \in 1..Len(ortools_results) : "error" \in DOMAIN ortools_results[k]
    \/ \E k \in 1..Len(mip_results) : "error" \in DOMAIN mip_results[k]

\* C12: when solve_tsp_with_mip or solve_tsp_with_ortools has returned its
\* error result for some instance, main does not abort: it never leaves a
\* comparing, plotting or logging step with an exception.
C12_BatchSurvivesError ==
    (entry = "main" /\ SomeErrorResult) => pc # "KeyError"

\* compute_distance_matrix has returned its matrix to the extractor
MatrixReturned ==
    /\ entry = "TSPDataExtractor"
    /\ pc \in {"ready", "IndexError"}

\* the integer r lies within one half of sqrt(d2h) / 2
WithinHalf(r, d2h) ==
    /\ r >= 0
    /\ r = 0 \/ (2 * r - 1) * (2 * r - 1) <= d2h
    /\ d2h <= (2 * r + 1) * (2 * r + 1)

\* C13: the matrix returned by compute_distance_matrix for a parsed instance
\* of dimension N is N x N, symmetric, zero on the diagonal, and each
\* off-diagonal entry [i][j] is the distance, rounded to an integer, between
\* the coordinates of the file ids i + 1 and j + 1.
C13_MatrixShape ==
    MatrixReturned =>
      LET idxs == 0..(reader.dimension - 1)
      IN  /\ DOMAIN distance_matrix = idxs
          /\ \A i \in idxs : DOMAIN distance_matrix[i] = idxs
          /\ \A i, j \in idxs : distance_matrix[i][j] = distance_matrix[j][i]
          /\ \A i \in idxs : distance_matrix[i][i] = 0
          /\ \A i, j \in idxs :
               i # j => WithinHalf(distance_matrix[i][j],
                                   SqDist(reader.node_coords[i + 1],
                                          reader.node_coords[j + 1]))

\* a matrix of at least three nodes with an entry of 2 or more was returned
C13_Witness ==
    /\ MatrixReturned
    /\ reader.dimension >= 3
    /\ \E i, j \in 0..(reader.dimension - 1) :
         i # j /\ distance_matrix[i][j] >= 2

\* C14: every off-diagonal entry is the Euclidean distance rounded half-up:
\* the entry r satisfies r - 1/2 <= distance < r + 1/2, so a distance with
\* fraction exactly one half goes to the next larger integer.
C14_RoundHalfUp ==
    MatrixReturned =>
      \A i, j \in 0..(reader.dimension - 1) :
         i # j =>
           LET r == distance_matrix[i][j]
               d2h == SqDist(reader.node_coords[i + 1], reader.node_coords[j + 1])
           IN  /\ r >= 0
               /\ r = 0 \/ (2 * r - 1) * (2 * r - 1) <= d2h
               /\ d2h < (2 * r + 1) * (2 * r + 1)

\* a distance of exactly r - 1/2 with r odd was rounded to r (rounding to
\* the even neighbour would have given r - 1)
C14_Witness ==
    /\ MatrixReturned
    /\ \E i, j \in 0..(reader.dimension - 1) :
         /\ i # j
         /\ distance_matrix[i][j] % 2 = 1
         /\ SqDist(reader.node_coords[i + 1], reader.node_coords[j + 1])
              = (2 * distance_matrix[i][j] - 1) * (2 * distance_matrix[i][j] - 1)

\* the parsed fields of the instance the claim C16 names
ParsedFields ==
    <<reader.name, reader.dimension, reader.capacity, reader.node_coords,
      reader.demands>>

\* some node id of 1..N has no coordinate entry in the parsed file
CoordinateMissing ==
    /\ reader.dimension # None
    /\ \E id \in 1..reader.dimension : id \notin DOMAIN reader.node_coords

\* C15: if a node id in 1..N has no coordinate entry, requesting the distance
\* matrix fails with a lookup error, so constructing the TSPDataExtractor
\* fails and no sub-instance is extracted from the file.
C15_MissingCoordinateReported ==
    (entry = "TSPDataExtractor" /\ pc \notin {"parse", "parsed"}
       /\ CoordinateMissing)
      => (pc = "KeyError" /\ tsp_data = NoResult)

\* C16: once parse has read the EOF line, no later line changes the parsed
\* name, dimension, capacity, coordinates or demands.
C16_NothingAfterEOF ==
    [][eof_read => ParsedFields' = ParsedFields]_vars

\* the last call of extract_tsp_subset returned the sub-instance tsp_data
Extracted ==
    /\ entry = "TSPDataExtractor"
    /\ pc = "ready"
    /\ "original_vrp_nodes" \in DOMAIN tsp_data

\* how many nodes a call with this include_depot can select at most
Available(dep) == IF dep THEN reader.dimension ELSE reader.dimension - 1

\* C17: for a requested size K with 1 <= K <= available, include_depot=True
\* selects the file ids 1, 2, ..., K and include_depot=False selects the
\* file ids 2, 3, ..., K + 1, in ascending order and nothing else.
C17_PrefixRule ==
    (Extracted /\ 1 <= num_nodes /\ num_nodes <= Available(tsp_data.include_depot))
      => tsp_data.original_vrp_nodes =
           IF tsp_data.include_depot
             THEN [k \in 1..num_nodes |-> k]
             ELSE [k \in 1..num_nodes |-> k + 1]

\* two or more non-depot nodes were requested without the depot and were
\* available
C17_Witness ==
    /\ Extracted
    /\ ~tsp_data.include_depot
    /\ 2 <= num_nodes
    /\ num_nodes <= Available(FALSE)
    /\ Len(tsp_data.original_vrp_nodes) = num_nodes

Min(a, b) == IF a < b THEN a ELSE b

\* a call of extract_tsp_subset has ended, by returning or by failing
ExtractEnded ==
    /\ entry = "TSPDataExtractor"
    /\ \/ pc = "IndexError"
       \/ pc = "ready" /\ "original_vrp_nodes" \in DOMAIN tsp_data

\* C18: for every requested size K extract_tsp_subset does not fail, selects
\* only ids of 1..N, and returns min(K, N) nodes with the depot and
\* min(K, N - 1) nodes without it; 'dimension', the length of
\* 'original_vrp_nodes' and both sides of the matrix equal that number.
C18_Clamping ==
    ExtractEnded =>
      /\ pc # "IndexError"
      /\ LET count == IF tsp_data.include_depot
                        THEN Min(num_nodes, reader.dimension)
                        ELSE Min(num_nodes, reader.dimension - 1)
             idxs == 0..(count - 1)
         IN  /\ Range(tsp_data.original_vrp_nodes) \subseteq 1..reader.dimension
             /\ Len(tsp_data.original_vrp_nodes) = count
             /\ tsp_data.dimension = count
             /\ DOMAIN tsp_data.distance_matrix = idxs
             /\ \A i \in idxs : DOMAIN tsp_data.distance_matrix[i] = idxs

\* C19: in every sub-instance 'original_vrp_nodes' has no repeated id, index
\* i stands for file id original_vrp_nodes[i] (the depot, when included, at
\* index 0), the coordinate stored at index i is the parent's coordinate of
\* that id, and every index of 0..dimension-1 maps to an id of the parent.
C19_ReindexBijection ==
    Extracted =>
      LET o == tsp_data.original_vrp_nodes
          idxs == 0..(tsp_data.dimension - 1)
      IN  /\ \A a, b \in 1..Len(o) : a # b => o[a] # o[b]
          /\ Len(o) = tsp_data.dimension
          /\ tsp_data.include_depot => (Len(o) >= 1 /\ o[1] = 1)
          /\ DOMAIN tsp_data.coordinates =
               {i \in idxs : o[i + 1] \in DOMAIN reader.node_coords}
          /\ \A i \in DOMAIN tsp_data.coordinates :
               tsp_data.coordinates[i] = reader.node_coords[o[i + 1]]
          /\ \A i \in idxs : o[i + 1] \in 1..reader.dimension

\* a sub-instance of two or more nodes without the depot, every index with
\* a coordinate
C19_Witness ==
    /\ Extracted
    /\ ~tsp_data.include_depot
    /\ tsp_data.dimension >= 2
    /\ DOMAIN tsp_data.coordinates = 0..(tsp_data.dimension - 1)

\* C20: the sub-instance matrix is the slice of the parent's matrix at the
\* selected ids, sub[i][j] = parent[original_vrp_nodes[i]-1][original_vrp_nodes[j]-1],
\* hence symmetric with a zero diagonal.
C20_MatrixIsSlice ==
    Extracted =>
      LET o == tsp_data.original_vrp_nodes
          sub == tsp_data.distance_matrix
          idxs == 0..(tsp_data.dimension - 1)
      IN  /\ \A i, j \in idxs :
               sub[i][j] = distance_matrix[o[i + 1] - 1][o[j + 1] - 1]
          /\ \A i, j \in idxs : sub[i][j] = sub[j][i]
          /\ \A i \in idxs : sub[i][i] = 0

\* a sub-instance without the depot whose matrix differs from the parent's
\* entries at the same indices
C20_Witness ==
    /\ Extracted
    /\ ~tsp_data.include_depot
    /\ \E i, j \in 0..(tsp_data.dimension - 1) :
         tsp_data.distance_matrix[i][j] # distance_matrix[i][j]

\* C21: calls of extract_tsp_subset on one extractor with the same
\* (size, include_depot), whatever calls with other arguments come between,
\* return sub-instances equal in name, dimension, coordinates,
\* original_vrp_nodes and distance matrix.
C21_ExtractionIdempotent ==
    \A a, b \in 1..Len(subs) :
       (subs[a].num_nodes = subs[b].num_nodes
          /\ subs[a].include_depot = subs[b].include_depot)
         => /\ subs[a].returned.name = subs[b].returned.name
            /\ subs[a].returned.dimension = subs[b].returned.dimension
            /\ subs[a].returned.coordinates = subs[b].returned.coordinates
            /\ subs[a].returned.original_vrp_nodes
                 = subs[b].returned.original_vrp_nodes
            /\ subs[a].returned.distance_matrix
                 = subs[b].returned.distance_matrix

\* the same arguments were used before and after a call with other
\* arguments, and the caller has written to the first sub-instance's matrix
C21_Witness ==
    /\ Len(subs) >= 3
    /\ subs[1].num_nodes = subs[3].num_nodes
    /\ subs[1].include_depot = subs[3].include_depot
    /\ subs[2].num_nodes # subs[1].num_nodes
    /\ <<1, "distance_matrix">> \in written

\* C22: once the extractor exists, neither a call of extract_tsp_subset nor
\* a later in-place change of a returned sub-instance's distance matrix,
\* coordinate table or original_vrp_nodes list changes the extractor's
\* parsed data, the parent matrix, or a container of any other sub-instance.
C22_SubInstanceIndependent ==
    [][pc = "ready" =>
         /\ reader' = reader
         /\ distance_matrix' = distance_matrix
         /\ \A h \in 1..Len(subs), f \in Fields :
              (<<h, f>> \in written <=> <<h, f>> \in written')
                => Deref(subs[h].objects[f])' = Deref(subs[h].objects[f])]_vars

\* two sub-instances are kept and a container of one of them was changed
C22_Witness ==
    /\ Len(subs) >= 2
    /\ \E h \in 1..Len(subs), f \in Fields :
         /\ <<h, f>> \in written
         /\ Deref(subs[h].objects[f]) # subs[h].returned[f]

\* the reader state that holds the coordinates load_tsp_instance has read
AsReader(td) ==
    [dimension |-> td.dimension,
     node_coords |-> [id \in {i + 1 : i \in DOMAIN td.coordinates}
                        |-> td.coordinates[id - 1]]]

\* C23: the matrix built by load_tsp_instance equals the matrix
\* VRPDataReader.compute_distance_matrix builds from the same coordinates:
\* every entry is the Euclidean distance rounded half-up, distances with a
\* fraction of exactly one half included.
C23_LoadAgreesWithReader ==
    (entry = "load_tsp_instance" /\ pc = "load_returned")
      => loaded.distance_matrix = compute_distance_matrix(AsReader(loaded))

\* the sequences _handle_subtours has discovered so far: the collected
\* subtours and the one being walked
Discovered ==
    IF pc = "hs_inner" THEN Append(subtours, subtour) ELSE subtours

NoRepeat(s) == \A a, b \in 1..Len(s) : s[a] = s[b] => a = b

\* what is left to do: passes of the walk, resp. nodes still unvisited
Remaining ==
    IF pc = "walk" THEN 2 * (n - step)
    ELSE IF pc = "hs_outer" THEN 2 * Cardinality(unvisited) + 1
    ELSE IF pc = "hs_inner" THEN 2 * Cardinality(unvisited)
    ELSE 0

C24_Bounded ==
    /\ pc \in {"walk", "walk_done"} =>
         /\ step <= n
         /\ Len(tour) <= n
    /\ pc \in {"hs_outer", "hs_inner", "hs_select"} =>
         /\ \A k \in 1..Len(Discovered) :
              /\ NoRepeat(Discovered[k])
              /\ Range(Discovered[k]) \cap unvisited = {}
              /\ Range(Discovered[k]) \subseteq Nodes(n)
         /\ \A k, l \in 1..Len(Discovered) :
              k # l => Range(Discovered[k]) \cap Range(Discovered[l]) = {}
    /\ pc = "hs_inner" /\ subtour = <<>> => current = start /\ start \in unvisited
    /\ pc = "hs_select" => unvisited = {}

C24_Progress ==
    /\ pc \in {"walk", "hs_outer", "hs_inner"} =>
         /\ Remaining' < Remaining
         /\ Remaining' >= 0
    /\ pc \in {"hs_outer", "hs_inner"} =>
         /\ unvisited' \subseteq unvisited
         /\ pc = "hs_inner" =>
              /\ unvisited \ unvisited' = Range(subtour') \ Range(subtour)
              /\ Len(subtour') - Len(subtour) = Cardinality(unvisited \ unvisited')
    /\ pc = "hs_inner" /\ subtour = <<>> => unvisited' # unvisited

\* C24: the walk of _extract_tour and the repair of _handle_subtours end for
\* every successor map: the walk makes at most n passes, every step of
\* either loop lowers a natural-valued measure, a pass of the repair's outer
\* loop removes its start node from unvisited at once, unvisited only
\* shrinks and each removed node is appended to exactly one discovered
\* sequence, so the sequences are pairwise disjoint and without repetition,
\* and the repair ends with unvisited empty.
C24_LoopsTerminate == []C24_Bounded /\ [][C24_Progress]_vars

\* a repair that found two cycles has ended
C24_Witness ==
    /\ entry = "solve_tsp_with_mip"
    /\ pc = "hs_select"
    /\ Len(subtours) = 2
    /\ unvisited = {}
    /\ Cardinality(DOMAIN edges) = n

\* _extract_tour has returned what _handle_subtours gave it
RepairedTourReturned ==
    /\ entry = "solve_tsp_with_mip"
    /\ pc = "extract_returned"
    /\ repair_called

\* C25: when _handle_subtours is reached through _extract_tour it returns
\* the sequence that starts at node 0: the result is the walk of
\* _extract_tour from node 0 followed by a closing 0 and has at least 3
\* entries; a subtour with node 0 has been collected, so neither the
\* longest-subtour fallback nor the empty result is returned.
C25_RepairReturnsDepotWalk ==
    RepairedTourReturned =>
      /\ ret = Append(tour, 0)
      /\ Len(ret) >= 3
      /\ subtours # <<>>
      /\ DepotSubtour(subtours) # 0

\* a repair that collected a second subtour at least as long as the depot's
C25_Witness ==
    /\ RepairedTourReturned
    /\ Len(subtours) = 2
    /\ Len(subtours[2]) >= Len(subtours[1])
    /\ ret = Append(tour, 0)

\* the attempts made so far all failed (raised or left no solution)
AllFailed == \A k \in 1..Len(attempts) : attempts[k] # "solution"

\* C26: MIPTSPSolver.solve tries HiGHS_CMD, PULP_CBC_CMD, COIN_CMD in this
\* order: the k-th attempt is made only after k - 1 failed ones, a failed
\* attempt (exception or non-solution status) leads to the next solver, the
\* first attempt ending Optimal or Feasible is the last one made and its
\* solver is the name reported, and "NONE" is reported only after three
\* failed attempts.
C26_SolverOrder ==
    entry = "solve_tsp_with_mip" =>
      /\ Len(attempts) <= Len(solvers_to_try)
      /\ \A k \in 1..(Len(attempts) - 1) : attempts[k] # "solution"
      /\ AllFailed => /\ pc \in {"solve_loop", "solve_returned", "mip_returned",
                                 "validate", "validated"}
                      /\ solver_used = "None"
                      /\ pc # "solve_loop" => Len(attempts) = Len(solvers_to_try)
      /\ ~AllFailed => /\ pc # "solve_loop"
                       /\ solver_used = solvers_to_try[Len(attempts)]
      /\ pc \in {"solve_returned", "mip_returned", "validate", "validated"} =>
           /\ result.solver_used = "NONE" <=>
                (AllFailed /\ Len(attempts) = Len(solvers_to_try))
           /\ result.solver_used # "NONE" =>
                result.solver_used = solvers_to_try[Len(attempts)]

\* the second solver succeeded with Feasible after the first one failed
C26_Witness ==
    /\ entry = "solve_tsp_with_mip"
    /\ pc = "solve_returned"
    /\ attempts \in {<<"raised", "solution">>, <<"no_solution", "solution">>}
    /\ status = "Feasible"
    /\ result.solver_used = "PULP_CBC_CMD"

\* solve_tsp_with_mip has returned a success dictionary
MipSucceeded == MipReturned /\ IsSuccessDict(out)

\* C27: in a success result of solve_tsp_with_mip, feasible is True only if
\* all_cities_visited and tour_is_cycle are both True, so a repaired tour
\* that visits fewer than n nodes is not reported as feasible.
C27_FeasibleMeansComplete ==
    MipSucceeded =>
      (out.solution_quality.feasible =>
         /\ out.solution_quality.all_cities_visited
         /\ out.solution_quality.tour_is_cycle)

\* solve has returned a non-empty tour
SolveGaveTour ==
    /\ entry = "solve_tsp_with_mip"
    /\ pc = "solve_returned"
    /\ result.tour # <<>>

\* C28: for every non-empty result of MIPTSPSolver.solve the reported total
\* distance equals the length of the returned tour as calculate_tour_distance
\* recomputes it from the distance matrix.
C28_CostIsTourCost ==
    SolveGaveTour =>
      /\ Len(result.tour) >= 3
      /\ \A k \in 1..Len(result.tour) : result.tour[k] < n
      /\ result.total_distance = calculate_tour_distance(n, result.tour)

\* the rectangle example: the assignment 0 -> 1 -> 2 -> 3 -> 0 gives the tour
\* [0, 1, 2, 3, 0], reported with cost 14, which is its length
C28_Rectangle ==
    /\ SolveGaveTour
    /\ n = 4
    /\ result.tour = <<0, 1, 2, 3, 0>>
    /\ result.total_distance = 14
    /\ calculate_tour_distance(n, result.tour) = 14

\* validate_solution has returned (is_valid, errors)
FacilityValidated == entry = "validate_solution" /\ pc = "fac_validated"

\* the three conditions on the arguments
FacilityCountOk == Len(facility_locations) = num_facilities
AllPointsAssigned == \A i \in 0..(n - 1) : i \in DOMAIN assignments
AssignedAreOpen ==
    \A k \in DOMAIN assignments : assignments[k] \in Range(facility_locations)

C29_ValidReached ==
    /\ FacilityValidated
    /\ n = 2
    /\ is_valid
    /\ Len(facility_locations) = 2

\* the run_ids of the listed runs whose lowercased name contains one of
\* tai75a, tai100a, tai150a, tai385, decided on the name alone
Matching ==
    {k \in 1..Len(listed) :
       /\ listed[k].has_name
       /\ \E instance \in tai_instances :
            Contains(Lower(listed[k].run_name), instance)}

C30_OnlyMatching ==
    entry = "delete_tai_runs" =>
      /\ deleted \subseteq Matching
      /\ pc \in {"del_search", "del_delete", "del_except", "del_done",
                 "del_done_after_error"}
      /\ pc = "del_done" => deleted = Matching

C30_StopAtFailure ==
    /\ pc \in {"del_except", "del_done", "del_done_after_error"} =>
         deleted' = deleted
    /\ pc = "del_except" => pc' = "del_done_after_error"
    /\ pc' = "del_except" => deleted' = deleted

\* C30: the script deletes a run only if its name, lowercased, contains one
\* of tai75a, tai100a, tai150a, tai385, so runs with another name or with no
\* name are never deleted; when search_runs or a delete_run fails, that run
\* and every later one stay undeleted and the script goes on to its last
\* line; when nothing fails, every matching run has been deleted.
C30_DeletesOnlyTaiRuns == []C30_OnlyMatching /\ [][C30_StopAtFailure]_vars

\* the script has ended without a failure, having deleted a run matched
\* through an upper-case letter and left another run alone
C30_Witness ==
    /\ entry = "delete_tai_runs"
    /\ pc = "del_done"
    /\ \E k \in deleted : \E c \in Range(listed[k].run_name) : LowerChar(c) # c
    /\ \E k \in 1..Len(listed) : k \notin deleted

====
